---- MODULE Spec2Model ----
(***************************************************************************)
(* Execution engine of the content-to-publication pipeline                 *)
(* (backend/app): the Execution Store (db.py), the stage graph (graph.py), *)
(* the stage functions (nodes/*.py, publish.py) and the create / resume    *)
(* handlers with the background run (api/executions.py, main.py).          *)
(*                                                                         *)
(* The graph library is modelled by its documented behaviour: a checkpoint *)
(* (values, next node) is written after every completed stage; a stage     *)
(* that calls interrupt() without a resume value leaves the checkpoint at  *)
(* that stage and its writes are dropped; a resumed invocation re-executes *)
(* the pending stage from its first line and hands the resume value to the *)
(* interrupt() of that first stage only.                                   *)
(***************************************************************************)
EXTENDS Naturals, FiniteSets, Sequences, TLC

VARIABLES
    store,      \* Execution rows: execution_id -> row (db.Execution)
    nextId,     \* number of execution ids handed out (uuid4 is fresh each time)
    ckpt,       \* the graph's checkpoint per thread_id = execution_id
    bg,         \* the detached run_execution task of each execution
    rs,         \* the submit_actions call in flight for each execution
    calls,      \* successful publish calls so far, per execution (observation)
    hist,       \* requests received so far, per execution (observation)
    last,       \* the step just taken: stage run, calls made, response (observation)
    probe       \* inputs of the pure functions exercised by SpecPure

vars == <<store, nextId, ckpt, bg, rs, calls, hist, last, probe>>

----------------------------------------------------------------------------
(* Bounds of the model *)

MaxExec == 3        \* executions created in one behaviour
MaxResumes == 2     \* submit_actions calls per execution
MaxCalls == 3       \* the call counters saturate here
MaxDeep == 1        \* executions created where one is followed stage by stage

Users == {"u1", "u2"}
Urls == {"https://a"}

ExecIds == 1..MaxExec

----------------------------------------------------------------------------
(* Values *)

Absent == "<absent>"            \* a key that is not in the state dict
DraftTexts == {"d1", "d2"}      \* texts the generation collaborator may return
EditTexts == {"", " ", "e1", "e2"}   \* raw edited_* strings of a request
ImageUrl == "i1"

Statuses == {"running", "awaiting_human", "awaiting_auth", "completed", "terminated"}
ActiveStatuses == {"running", "awaiting_human", "awaiting_auth"}

R_RESTART == "Server restarted (e.g. --reload). Start a new execution."
R_TIMEOUT == "Execution timed out (5 min)."
R_QUOTA == "Gemini API quota exceeded. Set GEMINI_MODEL=gemini-pro in .env or try later."
R_REJECT == "Human rejected content."
R_RELEVANCE == "Content relevance too low; not a suitable article/blog."
R_SCRAPE == "Scrape failed"
R_SHORT == "Scraped content too short"
R_AUTH == "Authentication not completed."
R_NOUSER == "Missing user_id for auth check."
R_INPUT == "Missing required input: user_id/url/execution_id"

\* str.strip() on the sample strings
Strip(s) == IF s = " " THEN "" ELSE s

\* dict.get(key, "") / (dict.get(key) or "")
GetOr(v) == IF v = Absent THEN "" ELSE v

\* the relevance threshold of analyze_content, in hundredths
RelevanceMin == 35

\* twitter_connection_id / linkedin_connection_id of HitlActionsRequest: None
\* (no selector) or the id of one of the user's connections
NoConnection == 0
ConnectionIds == {NoConnection, 7, 9}

NoActions ==
    [set |-> FALSE, approve_content |-> FALSE, reject_content |-> FALSE,
     approve_image |-> FALSE, reject_image |-> FALSE,
     regenerate_twitter |-> FALSE, regenerate_linkedin |-> FALSE,
     edited_twitter |-> "", edited_linkedin |-> ""]

\* initial_state of create_execution_endpoint; keys the handler does not set are absent
InitialState(u, url, e) ==
    [user_id |-> u, url |-> url, execution_id |-> e,
     terminated |-> FALSE, terminate_reason |-> "",
     scraped |-> FALSE, images |-> {},
     relevance |-> 0, analysed |-> FALSE,
     twitter_draft |-> Absent, linkedin_draft |-> Absent,
     approved_twitter_post |-> Absent, approved_linkedin_post |-> Absent,
     image_set |-> FALSE, image_url |-> "", image_base64 |-> FALSE,
     media_set |-> FALSE, twitter_media_id |-> FALSE, linkedin_asset_urn |-> FALSE,
     auth_set |-> FALSE, twitter_present |-> FALSE, linkedin_present |-> FALSE,
     pub_twitter |-> "not_started", pub_linkedin |-> "not_started",
     hitl_actions |-> NoActions]

----------------------------------------------------------------------------
(* Interrupt payloads and stage results *)

NoPayload == [present |-> FALSE, type |-> Absent, needs |-> {}]

\* payload of await_human_actions: it carries no "type" key
HumanPayload == [present |-> TRUE, type |-> Absent, needs |-> {}]

\* payload of check_authentication
ReauthPayload(needs) == [present |-> TRUE, type |-> "reauth_required", needs |-> needs]

NoCalls ==
    [scrape |-> 0, generate |-> 0, upload_twitter |-> 0, upload_linkedin |-> 0,
     publish_twitter |-> 0, publish_linkedin |-> 0,
     published_twitter |-> 0, published_linkedin |-> 0]

CallKeys == DOMAIN NoCalls

Returned(st, ev) ==
    [kind |-> "ok", st |-> st, payload |-> NoPayload, exc |-> "", ev |-> ev]

Interrupted(st, payload) ==
    [kind |-> "interrupt", st |-> st, payload |-> payload, exc |-> "", ev |-> NoCalls]

Raised(st, exc, ev) ==
    [kind |-> "raise", st |-> st, payload |-> NoPayload, exc |-> exc, ev |-> ev]

----------------------------------------------------------------------------
(* nodes/ingest.py *)

ingest_url(st) ==
    IF st.url = "" \/ st.user_id = "" \/ st.execution_id = 0
    THEN Returned([st EXCEPT !.terminated = TRUE, !.terminate_reason = R_INPUT], NoCalls)
    ELSE Returned(st, NoCalls)

(* clients/firecrawl.py and nodes/scrape.py.  x.fails is the number of     *)
(* attempts of scrape_article that raise (FireCrawlError or a network      *)
(* error, x.err) before one returns; the tenacity decorator retries every  *)
(* exception and after the last attempt raises its own RetryError.         *)

ScrapeAttempts == 3

\* the errors a call of the scrape service ends with, by class: the one
\* scrape_article raises itself and the one httpx raises when the network
\* fails; MessageOf is the text str(e) of such an error
ScrapeErrors == {"FireCrawlError", "ConnectError"}

MessageOf(err) ==
    IF err = "FireCrawlError" THEN "FireCrawl scrape failed (503): unavailable"
    ELSE "All connection attempts failed"
TextMin == 600

scrape_article(x) ==
    IF x.fails >= ScrapeAttempts
    THEN [ok |-> FALSE, attempts |-> ScrapeAttempts, exc |-> "RetryError[" \o x.err \o "]"]
    ELSE [ok |-> TRUE, attempts |-> x.fails + 1, exc |-> ""]

scrape_content(st, x) ==
    IF st.terminated THEN Returned(st, NoCalls)
    ELSE LET r == scrape_article(x)
             ev == [NoCalls EXCEPT !.scrape = r.attempts]
         IN  IF ~r.ok
             THEN IF r.exc = "FireCrawlError"
                  THEN Returned([st EXCEPT !.terminated = TRUE,
                                           !.terminate_reason = R_SCRAPE], ev)
                  ELSE Raised(st, r.exc, ev)
             ELSE IF x.length < TextMin
                  THEN Returned([st EXCEPT !.terminated = TRUE,
                                           !.terminate_reason = R_SHORT], ev)
                  ELSE Returned([st EXCEPT !.scraped = TRUE, !.images = x.images], ev)

(* nodes/analyze.py.  Scores are hundredths.  x.heuristic is what          *)
(* _simple_relevance gives for the scraped text; x.llm says whether an LLM *)
(* is configured, x.parsed whether its answer held a JSON object, x.score  *)
(* the relevance_score of that object.                                     *)

Clamp01(r) == IF r > 100 THEN 100 ELSE r

\* analyze_content without the threshold of line 80
analyze_content_no_threshold(st, x) ==
    IF st.terminated THEN Returned(st, NoCalls)
    ELSE IF x.llm /\ x.raises # ""
    THEN Raised(st, x.raises, NoCalls)
    ELSE LET relevance ==
                 IF x.llm /\ x.parsed
                 THEN Clamp01(IF x.score # 0 THEN x.score ELSE x.heuristic)
                 ELSE x.heuristic
         IN  Returned([st EXCEPT !.analysed = TRUE, !.relevance = relevance], NoCalls)

analyze_content(st, x) ==
    IF st.terminated THEN Returned(st, NoCalls)
    ELSE IF x.llm /\ x.raises # ""
    THEN Raised(st, x.raises, NoCalls)
    ELSE LET relevance ==
                 IF x.llm /\ x.parsed
                 THEN Clamp01(IF x.score # 0 THEN x.score ELSE x.heuristic)
                 ELSE x.heuristic
             s1 == [st EXCEPT !.analysed = TRUE, !.relevance = relevance]
         IN  IF relevance < RelevanceMin
             THEN Returned([s1 EXCEPT !.terminated = TRUE,
                                      !.terminate_reason = R_RELEVANCE], NoCalls)
             ELSE Returned(s1, NoCalls)

(* nodes/generate.py *)

\* generate_posts that writes both drafts whatever the mode
generate_posts_ignores_mode(st, mode, x) ==
    IF st.terminated THEN Returned(st, NoCalls)
    ELSE LET ev == [NoCalls EXCEPT !.generate = 1]
         IN  IF x.raises # ""
             THEN Raised(st, x.raises, ev)
             ELSE Returned([st EXCEPT !.twitter_draft = x.twitter,
                                      !.linkedin_draft = x.linkedin], ev)

generate_posts(st, mode, x) ==
    IF st.terminated THEN Returned(st, NoCalls)
    ELSE LET ev == [NoCalls EXCEPT !.generate = 1]
         IN  IF x.raises # ""
             THEN Raised(st, x.raises, ev)
             ELSE Returned(
                    [st EXCEPT
                       !.twitter_draft =
                           IF mode \in {"both", "twitter_only"} THEN x.twitter ELSE @,
                       !.linkedin_draft =
                           IF mode \in {"both", "linkedin_only"} THEN x.linkedin ELSE @],
                    ev)

(* nodes/image.py: x says whether the early download of the bytes worked *)

select_image(st, x) ==
    IF st.terminated THEN Returned(st, NoCalls)
    ELSE IF st.scraped /\ st.images # {}
    THEN Returned([st EXCEPT !.image_set = TRUE,
                             !.image_url = CHOOSE i \in st.images : TRUE,
                             !.image_base64 = x], NoCalls)
    ELSE Returned([st EXCEPT !.image_set = TRUE, !.image_url = "",
                             !.image_base64 = FALSE], NoCalls)

----------------------------------------------------------------------------
(* nodes/hitl.py *)

\* bool(v) is True, on the Optional[bool] fields of HitlActionsRequest
_normalize_bool(v) == v = TRUE

\* apply_hitl_actions without lines 39-44: an edit is no approval
apply_hitl_actions_no_implicit(st, actions) ==
    LET et == Strip(actions.edited_twitter)
        el == Strip(actions.edited_linkedin)
        a0 == [set |-> TRUE,
               approve_content |-> _normalize_bool(actions.approve_content),
               reject_content |-> _normalize_bool(actions.reject_content),
               approve_image |-> _normalize_bool(actions.approve_image),
               reject_image |-> _normalize_bool(actions.reject_image),
               regenerate_twitter |-> _normalize_bool(actions.regenerate_twitter),
               regenerate_linkedin |-> _normalize_bool(actions.regenerate_linkedin),
               edited_twitter |-> et, edited_linkedin |-> el]
        s1 == [st EXCEPT
                 !.approved_twitter_post = IF et # "" THEN et ELSE @,
                 !.approved_linkedin_post = IF el # "" THEN el ELSE @]
        s2 == IF a0.approve_content
              THEN [s1 EXCEPT
                      !.approved_twitter_post =
                          IF @ = Absent THEN GetOr(s1.twitter_draft) ELSE @,
                      !.approved_linkedin_post =
                          IF @ = Absent THEN GetOr(s1.linkedin_draft) ELSE @]
              ELSE s1
        s3 == IF a0.reject_content
              THEN [s2 EXCEPT !.terminated = TRUE, !.terminate_reason = R_REJECT]
              ELSE s2
    IN  [s3 EXCEPT !.hitl_actions = a0]

\* apply_hitl_actions where an approval without an edit of a platform assigns
\* the draft to its approved text (lines 48-49 use setdefault)
apply_hitl_actions_overwrite(st, actions) ==
    LET et == Strip(actions.edited_twitter)
        el == Strip(actions.edited_linkedin)
        a0 == [set |-> TRUE,
               approve_content |-> _normalize_bool(actions.approve_content),
               reject_content |-> _normalize_bool(actions.reject_content),
               approve_image |-> _normalize_bool(actions.approve_image),
               reject_image |-> _normalize_bool(actions.reject_image),
               regenerate_twitter |-> _normalize_bool(actions.regenerate_twitter),
               regenerate_linkedin |-> _normalize_bool(actions.regenerate_linkedin),
               edited_twitter |-> et, edited_linkedin |-> el]
        s1 == [st EXCEPT
                 !.approved_twitter_post = IF et # "" THEN et ELSE @,
                 !.approved_linkedin_post = IF el # "" THEN el ELSE @]
        a1 == IF (et # "" \/ el # "") /\ ~a0.approve_content /\ ~a0.reject_content
              THEN [a0 EXCEPT !.approve_content = TRUE]
              ELSE a0
        s2 == IF a1.approve_content
              THEN [s1 EXCEPT
                      !.approved_twitter_post =
                          IF et # "" THEN et ELSE GetOr(s1.twitter_draft),
                      !.approved_linkedin_post =
                          IF el # "" THEN el ELSE GetOr(s1.linkedin_draft)]
              ELSE s1
        s3 == IF a1.reject_content
              THEN [s2 EXCEPT !.terminated = TRUE, !.terminate_reason = R_REJECT]
              ELSE s2
    IN  [s3 EXCEPT !.hitl_actions = a1]

apply_hitl_actions(st, actions) ==
    LET et == Strip(actions.edited_twitter)
        el == Strip(actions.edited_linkedin)
        a0 == [set |-> TRUE,
               approve_content |-> _normalize_bool(actions.approve_content),
               reject_content |-> _normalize_bool(actions.reject_content),
               approve_image |-> _normalize_bool(actions.approve_image),
               reject_image |-> _normalize_bool(actions.reject_image),
               regenerate_twitter |-> _normalize_bool(actions.regenerate_twitter),
               regenerate_linkedin |-> _normalize_bool(actions.regenerate_linkedin),
               edited_twitter |-> et, edited_linkedin |-> el]
        \* independent edits
        s1 == [st EXCEPT
                 !.approved_twitter_post = IF et # "" THEN et ELSE @,
                 !.approved_linkedin_post = IF el # "" THEN el ELSE @]
        \* an edit is an approval signal unless approve or reject was set
        a1 == IF (et # "" \/ el # "") /\ ~a0.approve_content /\ ~a0.reject_content
              THEN [a0 EXCEPT !.approve_content = TRUE]
              ELSE a0
        \* setdefault: only a key that is absent takes the draft
        s2 == IF a1.approve_content
              THEN [s1 EXCEPT
                      !.approved_twitter_post =
                          IF @ = Absent THEN GetOr(s1.twitter_draft) ELSE @,
                      !.approved_linkedin_post =
                          IF @ = Absent THEN GetOr(s1.linkedin_draft) ELSE @]
              ELSE s1
        s3 == IF a1.reject_content
              THEN [s2 EXCEPT !.terminated = TRUE, !.terminate_reason = R_REJECT]
              ELSE s2
    IN  [s3 EXCEPT !.hitl_actions = a1]

\* await_human_actions that goes on with an approval of its own where the
\* code suspends
await_human_actions_unattended(st, has_resume, resume) ==
    IF st.terminated THEN Returned(st, NoCalls)
    ELSE Returned(apply_hitl_actions(st, IF has_resume THEN resume
                                         ELSE [NoActions EXCEPT !.approve_content = TRUE]),
                  NoCalls)

\* resume: the value interrupt() returns when the invocation carries one for this stage
await_human_actions(st, has_resume, resume) ==
    IF st.terminated THEN Returned(st, NoCalls)
    ELSE IF ~has_resume THEN Interrupted(st, HumanPayload)
    ELSE Returned(apply_hitl_actions(st, resume), NoCalls)

\* route_after_hitl with the approval looked at before the regeneration flags
route_after_hitl_approval_first(st) ==
    LET a == st.hitl_actions
    IN  IF st.terminated \/ a.reject_content THEN "terminate"
        ELSE IF a.approve_content /\ a.reject_image THEN "continue_no_image"
        ELSE IF a.approve_content /\ a.approve_image /\ st.image_url # ""
        THEN "continue_with_image"
        ELSE IF a.approve_content THEN "continue_no_image"
        ELSE IF a.regenerate_twitter THEN "regen_twitter"
        ELSE IF a.regenerate_linkedin THEN "regen_linkedin"
        ELSE "await_more"

\* route_after_hitl with lines 106-107 after lines 108-109
route_after_hitl_image_first(st) ==
    LET a == st.hitl_actions
    IN  IF st.terminated \/ a.reject_content THEN "terminate"
        ELSE IF a.regenerate_twitter THEN "regen_twitter"
        ELSE IF a.regenerate_linkedin THEN "regen_linkedin"
        ELSE IF ~a.approve_content THEN "await_more"
        ELSE IF a.approve_image /\ st.image_url # "" THEN "continue_with_image"
        ELSE "continue_no_image"

route_after_hitl(st) ==
    LET a == st.hitl_actions
    IN  IF st.terminated \/ a.reject_content THEN "terminate"
        ELSE IF a.regenerate_twitter THEN "regen_twitter"
        ELSE IF a.regenerate_linkedin THEN "regen_linkedin"
        ELSE IF ~a.approve_content THEN "await_more"
        ELSE IF a.reject_image THEN "continue_no_image"
        ELSE IF a.approve_image /\ st.image_url # "" THEN "continue_with_image"
        ELSE "continue_no_image"

----------------------------------------------------------------------------
(* nodes/auth.py: cr is what the social_connections table holds for the    *)
(* user when the stage reads it (per provider: a connection that is        *)
(* present and not expired).  The table changes out of band (api/oauth.py, *)
(* api/connections.py, expiry), so every stage execution may find any      *)
(* content.                                                                *)

check_authentication(st, has_resume, cr) ==
    IF st.terminated THEN Returned(st, NoCalls)
    ELSE IF st.user_id = ""
    THEN Returned([st EXCEPT !.terminated = TRUE, !.terminate_reason = R_NOUSER], NoCalls)
    ELSE LET tw_ok == cr.twitter
             li_ok == cr.linkedin
             needs == (IF tw_ok THEN {} ELSE {"twitter"})
                          \cup (IF li_ok THEN {} ELSE {"linkedin"})
             s1 == [st EXCEPT !.auth_set = TRUE, !.twitter_present = tw_ok,
                              !.linkedin_present = li_ok]
         IN  IF needs = {} THEN Returned(s1, NoCalls)
             ELSE IF ~has_resume THEN Interrupted(st, ReauthPayload(needs))
             \* after resume, re-check: the table has not changed since the read above
             ELSE Returned([s1 EXCEPT !.terminated = TRUE,
                                      !.terminate_reason = R_AUTH], NoCalls)

----------------------------------------------------------------------------
(* publish.py *)

_image_is_from_scrape(st, url) == st.scraped /\ url \in st.images

\* upload_image without the try around the Twitter upload (lines 123-130)
upload_image_propagates(st, x) ==
    IF st.terminated THEN Returned(st, NoCalls)
    ELSE LET withMedia == [st EXCEPT !.media_set = TRUE]
         IN  IF st.image_url = "" THEN Returned(withMedia, NoCalls)
             ELSE IF ~_image_is_from_scrape(st, st.image_url) THEN Returned(withMedia, NoCalls)
             ELSE IF ~st.image_base64 /\ ~x.download THEN Returned(withMedia, NoCalls)
             ELSE IF st.user_id = "" THEN Returned(withMedia, NoCalls)
             ELSE IF x.twitter = "raise"
             THEN Raised(st, "upload error", [NoCalls EXCEPT !.upload_twitter = 1])
             ELSE Returned(
                    [withMedia EXCEPT
                       !.twitter_media_id = IF x.twitter = "media" THEN TRUE ELSE @,
                       !.linkedin_asset_urn = IF x.linkedin = "media" THEN TRUE ELSE @],
                    [NoCalls EXCEPT !.upload_twitter = 1, !.upload_linkedin = 1])

\* x.download: the late download of the bytes works; x.twitter, x.linkedin:
\* what call_upload_media gives ("media", "error" or "raise")
upload_image(st, x) ==
    IF st.terminated THEN Returned(st, NoCalls)
    ELSE LET withMedia == [st EXCEPT !.media_set = TRUE]     \* setdefault("media_ids", {})
         IN  IF st.image_url = "" THEN Returned(withMedia, NoCalls)
             ELSE IF ~_image_is_from_scrape(st, st.image_url) THEN Returned(withMedia, NoCalls)
             ELSE IF ~st.image_base64 /\ ~x.download THEN Returned(withMedia, NoCalls)
             ELSE IF st.user_id = "" THEN Returned(withMedia, NoCalls)
             ELSE Returned(
                    [withMedia EXCEPT
                       !.twitter_media_id = IF x.twitter = "media" THEN TRUE ELSE @,
                       !.linkedin_asset_urn = IF x.linkedin = "media" THEN TRUE ELSE @],
                    [NoCalls EXCEPT !.upload_twitter = 1, !.upload_linkedin = 1])

\* state.get(key) for a key of the selectors, then int(): None when the state
\* has no such key
_connection_id(st, key) == IF key \in DOMAIN st THEN st[key] ELSE NoConnection

\* the connection_id argument of call_upload_media and call_publish_post for
\* a platform
PassedConnection(st, platform) == _connection_id(st, platform \o "_connection_id")

\* publish_twitter without the except clause of lines 208-211
publish_twitter_propagates(st, x) ==
    IF st.terminated THEN Returned(st, NoCalls)
    ELSE IF st.pub_twitter = "published" THEN Returned(st, NoCalls)
    ELSE IF Strip(GetOr(st.approved_twitter_post)) = ""
    THEN Returned([st EXCEPT !.pub_twitter = "skipped"], NoCalls)
    ELSE IF x = "success"
    THEN Returned([st EXCEPT !.pub_twitter = "published"],
                  [NoCalls EXCEPT !.publish_twitter = 1, !.published_twitter = 1])
    ELSE IF x = "raise"
    THEN Raised(st, "publish error", [NoCalls EXCEPT !.publish_twitter = 1])
    ELSE Returned([st EXCEPT !.pub_twitter = "failed"],
                  [NoCalls EXCEPT !.publish_twitter = 1])

\* x: what call_publish_post gives ("success", "failure" or "raise")
publish_twitter(st, x) ==
    IF st.terminated THEN Returned(st, NoCalls)
    ELSE IF st.pub_twitter = "published" THEN Returned(st, NoCalls)
    ELSE IF Strip(GetOr(st.approved_twitter_post)) = ""
    THEN Returned([st EXCEPT !.pub_twitter = "skipped"], NoCalls)
    ELSE IF st.user_id = ""
    THEN Returned([st EXCEPT !.pub_twitter = "failed"], NoCalls)
    ELSE IF x = "success"
    THEN Returned([st EXCEPT !.pub_twitter = "published"],
                  [NoCalls EXCEPT !.publish_twitter = 1, !.published_twitter = 1])
    ELSE Returned([st EXCEPT !.pub_twitter = "failed"],
                  [NoCalls EXCEPT !.publish_twitter = 1])

\* publish_linkedin without its first two lines
publish_linkedin_unguarded(st, x) ==
    IF st.pub_linkedin = "published" THEN Returned(st, NoCalls)
    ELSE IF Strip(GetOr(st.approved_linkedin_post)) = ""
    THEN Returned([st EXCEPT !.pub_linkedin = "skipped"], NoCalls)
    ELSE IF x = "success"
    THEN Returned([st EXCEPT !.pub_linkedin = "published"],
                  [NoCalls EXCEPT !.publish_linkedin = 1, !.published_linkedin = 1])
    ELSE Returned([st EXCEPT !.pub_linkedin = "failed"],
                  [NoCalls EXCEPT !.publish_linkedin = 1])

publish_linkedin(st, x) ==
    IF st.terminated THEN Returned(st, NoCalls)
    ELSE IF st.pub_linkedin = "published" THEN Returned(st, NoCalls)
    ELSE IF Strip(GetOr(st.approved_linkedin_post)) = ""
    THEN Returned([st EXCEPT !.pub_linkedin = "skipped"], NoCalls)
    ELSE IF st.user_id = ""
    THEN Returned([st EXCEPT !.pub_linkedin = "failed"], NoCalls)
    ELSE IF x = "success"
    THEN Returned([st EXCEPT !.pub_linkedin = "published"],
                  [NoCalls EXCEPT !.publish_linkedin = 1, !.published_linkedin = 1])
    ELSE Returned([st EXCEPT !.pub_linkedin = "failed"],
                  [NoCalls EXCEPT !.publish_linkedin = 1])

----------------------------------------------------------------------------
(* graph.py: build_graph *)

END == "END"
START == "START"

Nodes ==
    {"ingest_url", "scrape_content", "analyze_content", "generate_posts",
     "select_image", "await_human_actions", "generate_twitter_only",
     "generate_linkedin_only", "check_authentication", "upload_image",
     "publish_twitter", "publish_linkedin"}

\* _route_after_auth without "and not a.get('reject_image')"
_route_after_auth_ignores_reject(st) ==
    LET a == st.hitl_actions
    IN  IF st.terminated THEN "terminate"
        ELSE IF a.approve_image /\ st.image_url # "" THEN "upload"
        ELSE "no_image"

\* _route_after_auth that sends every state that is not terminated to the upload
_route_after_auth_always_upload(st) == IF st.terminated THEN "terminate" ELSE "upload"

_route_after_auth(st) ==
    LET a == st.hitl_actions
    IN  IF st.terminated THEN "terminate"
        ELSE IF a.approve_image /\ ~a.reject_image /\ st.image_url # "" THEN "upload"
        ELSE "no_image"

\* the edges of await_human_actions with "await_more" leading out of the graph
HitlEdges_no_loop(r) ==
    CASE r = "terminate" -> END
      [] r = "await_more" -> END
      [] r = "regen_twitter" -> "generate_twitter_only"
      [] r = "regen_linkedin" -> "generate_linkedin_only"
      [] r = "continue_no_image" -> "check_authentication"
      [] r = "continue_with_image" -> "check_authentication"

\* add_conditional_edges("await_human_actions", route_after_hitl, {...})
HitlEdges(r) ==
    CASE r = "terminate" -> END
      [] r = "await_more" -> "await_human_actions"
      [] r = "regen_twitter" -> "generate_twitter_only"
      [] r = "regen_linkedin" -> "generate_linkedin_only"
      [] r = "continue_no_image" -> "check_authentication"
      [] r = "continue_with_image" -> "check_authentication"

\* add_conditional_edges("check_authentication", _route_after_auth, {...})
AuthEdges(r) ==
    CASE r = "terminate" -> END
      [] r = "upload" -> "upload_image"
      [] r = "no_image" -> "publish_twitter"

\* the node that follows node n once it has returned st
NextNode(n, st) ==
    CASE n = START -> "ingest_url"
      [] n = "ingest_url" -> "scrape_content"
      [] n = "scrape_content" -> "analyze_content"
      [] n = "analyze_content" -> "generate_posts"
      [] n = "generate_posts" -> "select_image"
      [] n = "select_image" -> "await_human_actions"
      [] n = "await_human_actions" ->
            HitlEdges(route_after_hitl(st))
      [] n = "generate_twitter_only" -> "await_human_actions"
      [] n = "generate_linkedin_only" -> "await_human_actions"
      [] n = "check_authentication" ->
            AuthEdges(_route_after_auth(st))
      [] n = "upload_image" -> "publish_twitter"
      [] n = "publish_twitter" -> "publish_linkedin"
      [] n = "publish_linkedin" -> END

\* one execution of node n on state st; x is what the node's collaborators do
RunNode(n, st, has_resume, resume, x) ==
    CASE n = "ingest_url" -> ingest_url(st)
      [] n = "scrape_content" -> scrape_content(st, x)
      [] n = "analyze_content" -> analyze_content(st, x)
      [] n = "generate_posts" -> generate_posts(st, "both", x)
      [] n = "select_image" -> select_image(st, x)
      [] n = "await_human_actions" -> await_human_actions(st, has_resume, resume)
      [] n = "generate_twitter_only" -> generate_posts(st, "twitter_only", x)
      [] n = "generate_linkedin_only" -> generate_posts(st, "linkedin_only", x)
      [] n = "check_authentication" -> check_authentication(st, has_resume, x)
      [] n = "upload_image" -> upload_image(st, x)
      [] n = "publish_twitter" -> publish_twitter(st, x)
      [] n = "publish_linkedin" -> publish_linkedin(st, x)

\* the values get_interrupt_payload finds in a result
get_interrupt_payload(payload) == IF payload.present THEN payload ELSE NoPayload

----------------------------------------------------------------------------
(* api/executions.py: the status computed from a result *)

_status_from_interrupt(payload) ==
    IF ~payload.present THEN "running"
    ELSE IF payload.type = "reauth_required" THEN "awaiting_auth"
    ELSE "awaiting_human"

\* run_execution without the elif branch of lines 95-96
StatusOfRun_no_completed(payload, terminated) ==
    IF terminated THEN "terminated"
    ELSE _status_from_interrupt(get_interrupt_payload(payload))

\* run_execution, lines 91-96
StatusOfRun(payload, terminated) ==
    LET status == _status_from_interrupt(get_interrupt_payload(payload))
    IN  IF terminated THEN "terminated"
        ELSE IF ~get_interrupt_payload(payload).present THEN "completed"
        ELSE status

\* submit_actions without its "elif not payload" branch (lines 219-220)
StatusOfResume_no_completed(payload, terminated) ==
    LET status == _status_from_interrupt(get_interrupt_payload(payload))
    IN  IF terminated THEN "terminated" ELSE status

\* submit_actions, lines 215-220
StatusOfResume(payload, terminated) ==
    LET status == _status_from_interrupt(get_interrupt_payload(payload))
    IN  IF terminated THEN "terminated"
        ELSE IF ~get_interrupt_payload(payload).present THEN "completed"
        ELSE status

\* run_execution, lines 103-112: the reason recorded for an exception
QuotaError == "429 RESOURCE_EXHAUSTED: quota exceeded"
GenericError == "generation failed"

IsQuotaText(exc) == exc = QuotaError

ReasonOfException(exc) == IF IsQuotaText(exc) THEN R_QUOTA ELSE exc

----------------------------------------------------------------------------
(* db.py: the Execution table *)

NoState == InitialState("", "", 0)

NoRow ==
    [has |-> FALSE, user_id |-> "", url |-> "", status |-> "",
     idempotency_key |-> <<"", "">>, state |-> NoState, interrupt |-> NoPayload]

compute_idempotency_key(u, url) == <<u, url>>

\* the rows the SELECT of find_execution_by_idempotency matches; scalar()
\* returns the first of them, and the statement gives them no order
find_execution_by_idempotency(u, idem) ==
    {e \in ExecIds : store[e].has /\ store[e].user_id = u /\ store[e].idempotency_key = idem}

\* create_execution left to the detached run: the handler writes no row
create_execution_deferred(e, u, url, initial, idem) == store

create_execution(e, u, url, initial, idem) ==
    [store EXCEPT ![e] =
        [has |-> TRUE, user_id |-> u, url |-> url, status |-> "running",
         idempotency_key |-> idem, state |-> initial, interrupt |-> NoPayload]]

\* state_json takes the state and, under "__interrupt__", the payload
save_execution_state(e, st, payload, status) ==
    [store EXCEPT ![e].state = st, ![e].interrupt = payload, ![e].status = status]

\* mark_stuck_running_executions that sets the status and leaves the snapshot
mark_stuck_running_executions_status_only(reason) ==
    [e \in ExecIds |->
        IF store[e].has /\ store[e].status = "running"
        THEN [store[e] EXCEPT !.status = "terminated"]
        ELSE store[e]]

\* mark_stuck_running_executions that selects every row not yet settled
mark_stuck_running_executions_all_active(reason) ==
    [e \in ExecIds |->
        IF store[e].has /\ store[e].status \in {"running", "awaiting_human", "awaiting_auth"}
        THEN [store[e] EXCEPT !.status = "terminated",
                              !.state = [@ EXCEPT !.terminated = TRUE,
                                                  !.terminate_reason = reason]]
        ELSE store[e]]

mark_stuck_running_executions(reason) ==
    [e \in ExecIds |->
        IF store[e].has /\ store[e].status = "running"
        THEN [store[e] EXCEPT !.status = "terminated",
                              !.state = [@ EXCEPT !.terminated = TRUE,
                                                  !.terminate_reason = reason]]
        ELSE store[e]]

\* list_inbox without its filter on the user (user_id is None)
list_inbox_any_user(statuses, u) ==
    {e \in ExecIds : store[e].has /\ store[e].status \in statuses}

list_inbox(statuses, u) ==
    {e \in ExecIds : store[e].has /\ store[e].status \in statuses /\ store[e].user_id = u}

\* api/executions.py: the executions GET /inbox lists for the user
inbox(u) == list_inbox({"awaiting_human", "awaiting_auth"}, u)

----------------------------------------------------------------------------
(* What the collaborators may do at each stage.  Profile "wide" draws from  *)
(* every outcome a stage distinguishes, profile "narrow" from one success  *)
(* and the failures that end differently, profile "store" from the success *)
(* alone, profile "review" from what matters to the human's decisions: two *)
(* generations that differ, a generation that fails, connections that are *)
(* missing.                                                                *)

ScrapeOk(images) == [fails |-> 0, err |-> "", length |-> 800, images |-> images]

ScrapeFails(err) == [fails |-> ScrapeAttempts, err |-> err, length |-> 0, images |-> {}]

ScrapeInputs(prof) ==
    CASE prof = "wide" ->
           {ScrapeOk({ImageUrl}), ScrapeOk({}),
            [fails |-> 0, err |-> "", length |-> TextMin - 1, images |-> {}],
            [fails |-> 0, err |-> "", length |-> TextMin, images |-> {ImageUrl}],
            [fails |-> ScrapeAttempts - 1, err |-> "ConnectError", length |-> 800,
             images |-> {ImageUrl}],
            ScrapeFails("FireCrawlError"), ScrapeFails("ConnectError")}
      [] prof = "narrow" ->
           {ScrapeOk({ImageUrl}),
            [fails |-> ScrapeAttempts - 1, err |-> "ConnectError", length |-> 800,
             images |-> {ImageUrl}],
            ScrapeFails("FireCrawlError")}
      [] OTHER -> {ScrapeOk({ImageUrl})}

AnalyzeNoLlm ==
    [llm |-> FALSE, raises |-> "", parsed |-> FALSE, score |-> 0, heuristic |-> 71]

AnalyzeLlm(score) == [AnalyzeNoLlm EXCEPT !.llm = TRUE, !.parsed = TRUE, !.score = score]

AnalyzeInputs(prof) ==
    CASE prof = "wide" ->
           {AnalyzeNoLlm,
            [AnalyzeNoLlm EXCEPT !.llm = TRUE],
            [AnalyzeNoLlm EXCEPT !.llm = TRUE, !.raises = QuotaError]}
           \cup {AnalyzeLlm(s) :
                   s \in {0, 20, RelevanceMin - 1, RelevanceMin, 80, 150}}
      [] prof = "narrow" -> {AnalyzeNoLlm, AnalyzeLlm(20)}
      [] OTHER -> {AnalyzeNoLlm}

GenerateOk(d) == [raises |-> "", twitter |-> d, linkedin |-> d]

GenerateInputs(prof) ==
    CASE prof = "wide" ->
           {GenerateOk(d) : d \in DraftTexts}
           \cup {[GenerateOk("d1") EXCEPT !.raises = r] : r \in {QuotaError, GenericError}}
      [] prof = "narrow" -> {GenerateOk("d1"), [GenerateOk("d1") EXCEPT !.raises = QuotaError]}
      [] prof = "review" ->
           {GenerateOk("d1"), GenerateOk("d2"),
            [GenerateOk("d1") EXCEPT !.raises = QuotaError]}
      [] OTHER -> {GenerateOk("d1")}

SelectInputs(prof) == IF prof = "wide" THEN BOOLEAN ELSE {TRUE}

UploadInputs(prof) ==
    IF prof = "wide"
    THEN [download : BOOLEAN, twitter : {"media", "error", "raise"},
          linkedin : {"media", "error", "raise"}]
    ELSE {[download |-> TRUE, twitter |-> "media", linkedin |-> "media"]}

PublishInputs(prof) ==
    IF prof \in {"store", "review"} THEN {"success"} ELSE {"success", "failure", "raise"}

ConnectionInputs(prof) ==
    CASE prof \in {"wide", "review"} -> [twitter : BOOLEAN, linkedin : BOOLEAN]
      [] prof = "narrow" ->
           {[twitter |-> TRUE, linkedin |-> TRUE], [twitter |-> FALSE, linkedin |-> TRUE]}
      [] OTHER -> {[twitter |-> TRUE, linkedin |-> TRUE]}

NodeInputs(n, prof) ==
    CASE n = "scrape_content" -> ScrapeInputs(prof)
      [] n = "analyze_content" -> AnalyzeInputs(prof)
      [] n \in {"generate_posts", "generate_twitter_only", "generate_linkedin_only"} ->
            GenerateInputs(prof)
      [] n = "select_image" -> SelectInputs(prof)
      [] n = "upload_image" -> UploadInputs(prof)
      [] n \in {"publish_twitter", "publish_linkedin"} -> PublishInputs(prof)
      [] n = "check_authentication" -> ConnectionInputs(prof)
      [] OTHER -> {"-"}

\* HitlActionsRequest bodies
Request(ac, rc, ai, ri, rt, rl, et, el) ==
    [set |-> TRUE, approve_content |-> ac, reject_content |-> rc,
     approve_image |-> ai, reject_image |-> ri,
     regenerate_twitter |-> rt, regenerate_linkedin |-> rl,
     edited_twitter |-> et, edited_linkedin |-> el]

AllRequests ==
    {Request(ac, rc, ai, ri, rt, rl, et, el) :
        ac \in BOOLEAN, rc \in BOOLEAN, ai \in BOOLEAN, ri \in BOOLEAN,
        rt \in BOOLEAN, rl \in BOOLEAN, et \in EditTexts, el \in EditTexts}

SomeRequests ==
    {Request(FALSE, FALSE, FALSE, FALSE, FALSE, FALSE, "", ""),         \* no decision
     Request(TRUE, FALSE, FALSE, FALSE, FALSE, FALSE, "", ""),         \* approve, no image
     Request(TRUE, FALSE, TRUE, FALSE, FALSE, FALSE, "", ""),         \* approve with image
     Request(TRUE, FALSE, TRUE, TRUE, FALSE, FALSE, "", ""),         \* image approved and rejected
     Request(FALSE, TRUE, FALSE, FALSE, FALSE, FALSE, "", ""),         \* reject
     Request(TRUE, TRUE, TRUE, FALSE, TRUE, FALSE, "e1", ""),       \* reject with everything else
     Request(FALSE, FALSE, FALSE, FALSE, TRUE, FALSE, "", ""),         \* regenerate twitter
     Request(FALSE, FALSE, FALSE, FALSE, FALSE, TRUE, "", ""),         \* regenerate linkedin
     Request(FALSE, FALSE, FALSE, FALSE, TRUE, TRUE, "", ""),         \* regenerate both
     Request(TRUE, FALSE, FALSE, FALSE, TRUE, FALSE, "", ""),         \* approve and regenerate twitter
     Request(FALSE, FALSE, FALSE, FALSE, FALSE, FALSE, "e1", ""),       \* edit twitter
     Request(FALSE, FALSE, TRUE, FALSE, FALSE, FALSE, "", "e1"),       \* edit linkedin, approve image
     Request(FALSE, FALSE, FALSE, FALSE, FALSE, FALSE, " ", "")}        \* blank edit

\* a request with its two selectors written out
WithSelectors(request, tw, li) ==
    [k \in DOMAIN request \cup {"twitter_connection_id", "linkedin_connection_id"} |->
        IF k = "twitter_connection_id" THEN tw
        ELSE IF k = "linkedin_connection_id" THEN li
        ELSE request[k]]

NoDecision == Request(FALSE, FALSE, FALSE, FALSE, FALSE, FALSE, "", "")
ApproveWithImage == Request(TRUE, FALSE, TRUE, FALSE, FALSE, FALSE, "", "")
Reject == Request(FALSE, TRUE, FALSE, FALSE, FALSE, FALSE, "", "")

\* requests that combine approval, edits and regeneration
ReviewRequests ==
    {NoDecision, ApproveWithImage, Reject,
     Request(TRUE, FALSE, FALSE, FALSE, TRUE, FALSE, "", ""),     \* approve and regenerate twitter
     Request(TRUE, FALSE, TRUE, FALSE, FALSE, TRUE, "e1", ""),    \* approve, edit twitter, regenerate linkedin
     Request(FALSE, FALSE, FALSE, FALSE, TRUE, TRUE, "", ""),     \* regenerate both
     Request(FALSE, FALSE, FALSE, FALSE, TRUE, FALSE, "e1", ""),  \* edit twitter and regenerate it
     Request(FALSE, FALSE, FALSE, FALSE, FALSE, FALSE, "e1", ""), \* edit twitter
     Request(FALSE, FALSE, FALSE, FALSE, FALSE, FALSE, "e2", ""), \* another edit of twitter
     Request(FALSE, FALSE, FALSE, FALSE, FALSE, FALSE, " ", "")}  \* blank edit

\* approving requests that name the accounts to post to
SelectingRequests ==
    {WithSelectors(r, tw, li) :
        r \in {ApproveWithImage,
                Request(FALSE, FALSE, FALSE, FALSE, FALSE, FALSE, "e1", "")},
        tw \in ConnectionIds, li \in ConnectionIds}

Requests(prof) ==
    CASE prof = "wide" -> SomeRequests
      [] prof = "review" -> ReviewRequests
      [] prof = "narrow" ->
           {NoDecision, ApproveWithImage, Reject,
            Request(TRUE, TRUE, TRUE, FALSE, TRUE, FALSE, "e1", ""),
            Request(FALSE, FALSE, FALSE, FALSE, TRUE, FALSE, "", ""),
            Request(FALSE, FALSE, TRUE, FALSE, FALSE, FALSE, "", "e1")}
      [] OTHER -> {ApproveWithImage, Reject}

----------------------------------------------------------------------------
(* State of the machine *)

NoCkpt == [has |-> FALSE, values |-> NoState, next |-> END]

NoTask == [on |-> FALSE, node |-> END, st |-> NoState]

NoCall ==
    [on |-> FALSE, node |-> END, st |-> NoState, has_resume |-> FALSE, resume |-> NoActions]

\* what a step shows to an observer: the handler's response (op "create" or
\* "resume", with the HTTP code) or the stage that ran (op "stage" in the
\* detached run, "resuming" in a resume), and the calls it made
Step(op, e, code, status, created, node, ev) ==
    [op |-> op, execution_id |-> e, code |-> code, status |-> status,
     created |-> created, node |-> node, ev |-> ev]

NoStep == Step("none", 0, 0, "", FALSE, "", NoCalls)

Response(op, e, code, status, created) == Step(op, e, code, status, created, "", NoCalls)

\* a function of the program put on the bench: its arguments, and once done
\* is set, what it gave
ProbeOf(kind, st, has_resume, request, payload, terminated, node, x) ==
    [kind |-> kind, st |-> st, has_resume |-> has_resume, request |-> request,
     payload |-> payload, terminated |-> terminated, node |-> node, x |-> x,
     done |-> FALSE, run_status |-> "", resume_status |-> "",
     res |-> Returned(NoState, NoCalls), next |-> ""]

NoProbe == ProbeOf("none", NoState, FALSE, NoActions, NoPayload, FALSE, "", "-")

Min(a, b) == IF a < b THEN a ELSE b

NoPublished == [twitter |-> 0, linkedin |-> 0]

AddPublished(c, ev) ==
    [twitter |-> Min(c.twitter + ev.published_twitter, MaxCalls),
     linkedin |-> Min(c.linkedin + ev.published_linkedin, MaxCalls)]

InitMachine ==
    /\ store = [e \in ExecIds |-> NoRow]
    /\ nextId = 0
    /\ ckpt = [e \in ExecIds |-> NoCkpt]
    /\ bg = [e \in ExecIds |-> NoTask]
    /\ rs = [e \in ExecIds |-> NoCall]
    /\ calls = [e \in ExecIds |-> NoPublished]
    /\ hist = [e \in ExecIds |-> [resumes |-> 0, approved |-> FALSE]]
    /\ last = NoStep

Init ==
    /\ InitMachine
    /\ probe = NoProbe

----------------------------------------------------------------------------
(* api/executions.py: create_execution_endpoint *)

\* the row the handler answers with instead of creating one, or 0
\* the handler without its test of the status: any row found is answered
ExistingActive_any_status(existing) == existing

ExistingActive(existing) ==
    IF existing # 0 /\ store[existing].status \in ActiveStatuses THEN existing ELSE 0

CreateExecution(u, url, rows) ==
    LET idem == compute_idempotency_key(u, url)
        found == find_execution_by_idempotency(u, idem)
    IN  \E existing \in (IF found = {} THEN {0} ELSE found) :
          IF ExistingActive(existing) # 0
          THEN /\ last' = Response("create", existing, 200, store[existing].status, FALSE)
               /\ UNCHANGED <<store, nextId, ckpt, bg, rs, calls, hist, probe>>
          ELSE /\ nextId < rows
               /\ LET e == nextId + 1
                      initial_state == InitialState(u, url, e)
                  IN  /\ nextId' = e
                      /\ store' = create_execution(e, u, url, initial_state, idem)
                      \* asyncio.create_task(run_execution(graph))
                      /\ bg' = [bg EXCEPT ![e] = [on |-> TRUE, node |-> START,
                                                  st |-> initial_state]]
                      /\ last' = Response("create", e, 200, "running", TRUE)
               /\ UNCHANGED <<ckpt, rs, calls, hist, probe>>

\* the except branches of run_execution: err_state is built from initial_state
ErrState(e, reason) ==
    [InitialState(store[e].user_id, store[e].url, e) EXCEPT
        !.terminated = TRUE, !.terminate_reason = reason]

\* the try body of run_execution once ainvoke has returned (st, payload)
SaveRunResult(e, st, payload) ==
    save_execution_state(e, st, get_interrupt_payload(payload),
                         StatusOfRun(payload, st.terminated))

\* run_execution without its except Exception branch: nothing is saved
SaveRunException_lost(e, exc) == store

\* except Exception
SaveRunException(e, exc) ==
    save_execution_state(e, ErrState(e, ReasonOfException(exc)), NoPayload, "terminated")

\* run_execution without its except asyncio.TimeoutError branch: the error
\* falls to except Exception, and str(e) of a TimeoutError is empty
SaveRunTimeout_as_exception(e) == SaveRunException(e, "")

\* except asyncio.TimeoutError
SaveRunTimeout(e) ==
    save_execution_state(e, ErrState(e, R_TIMEOUT), NoPayload, "terminated")

\* the checkpoint the graph writes when node n has returned st
Checkpoint(n, st) == [has |-> TRUE, values |-> st, next |-> NextNode(n, st)]

\* one stage of the detached run, and what run_execution does when ainvoke ends
RunExecutionStep(e, prof) ==
    /\ bg[e].on
    /\ LET n == bg[e].node
           st == bg[e].st
       IN  IF n = START
           THEN \* ainvoke(initial_state): the input becomes the thread's checkpoint
                /\ ckpt' = [ckpt EXCEPT ![e] = Checkpoint(START, st)]
                /\ bg' = [bg EXCEPT ![e].node = NextNode(START, st)]
                /\ last' = Step("stage", e, 0, "", FALSE, START, NoCalls)
                /\ UNCHANGED <<store, calls>>
           ELSE \E x \in NodeInputs(n, prof) :
                  LET r == RunNode(n, st, FALSE, NoActions, x)
                      ck == Checkpoint(n, r.st)
                  IN  /\ calls' = [calls EXCEPT ![e] = AddPublished(@, r.ev)]
                      /\ last' = Step("stage", e, 0, "", FALSE, n, r.ev)
                      /\ CASE r.kind = "ok" /\ ck.next # END ->
                                /\ ckpt' = [ckpt EXCEPT ![e] = ck]
                                /\ bg' = [bg EXCEPT ![e].node = ck.next, ![e].st = r.st]
                                /\ UNCHANGED store
                           [] r.kind = "ok" /\ ck.next = END ->
                                /\ ckpt' = [ckpt EXCEPT ![e] = ck]
                                /\ bg' = [bg EXCEPT ![e] = NoTask]
                                /\ store' = SaveRunResult(e, r.st, NoPayload)
                           [] r.kind = "interrupt" ->
                                /\ bg' = [bg EXCEPT ![e] = NoTask]
                                /\ store' = SaveRunResult(e, st, r.payload)
                                /\ UNCHANGED ckpt
                           [] r.kind = "raise" ->
                                /\ bg' = [bg EXCEPT ![e] = NoTask]
                                /\ store' = SaveRunException(e, r.exc)
                                /\ UNCHANGED ckpt
    /\ UNCHANGED <<nextId, rs, hist, probe>>

\* asyncio.wait_for gives up: the run is cancelled where it stands
RunExecutionTimeout(e) ==
    /\ bg[e].on
    /\ bg' = [bg EXCEPT ![e] = NoTask]
    /\ store' = SaveRunTimeout(e)
    /\ last' = Step("timeout", e, 0, "", FALSE, "", NoCalls)
    /\ UNCHANGED <<nextId, ckpt, rs, calls, hist, probe>>

----------------------------------------------------------------------------
(* api/executions.py: submit_actions *)

\* aget_state / aupdate_state(config, loaded, as_node="select_image"): a thread
\* without values is given the stored snapshot, as if select_image had just run
Rehydrate(e) ==
    IF ckpt[e].has /\ ckpt[e].values.execution_id # 0
    THEN ckpt[e]
    ELSE LET loaded == store[e].state
         IN  IF loaded.user_id # "" /\ loaded.url # "" /\ loaded.execution_id # 0
             THEN Checkpoint("select_image", loaded)
             ELSE ckpt[e]

\* lines 214-223: the result of ainvoke is saved and returned
SaveResumeResult(e, st, payload) ==
    save_execution_state(e, st, get_interrupt_payload(payload),
                         StatusOfResume(payload, st.terminated))

\* the request, as the human meant it: approval given (outright or by an
\* edit) and no rejection
HumanApproves(request) ==
    /\ ~request.reject_content
    /\ \/ request.approve_content
       \/ Strip(request.edited_twitter) # ""
       \/ Strip(request.edited_linkedin) # ""

\* the handler up to the first stage of ainvoke(Command(resume=...)), for a
\* request that finds no other resume of the execution under way
submit_actions(e, u, request) ==
    /\ ~rs[e].on
    /\ IF ~store[e].has
       THEN \* get_execution raises RuntimeError
            /\ last' = Response("resume", e, 500, "", FALSE)
            /\ UNCHANGED <<store, ckpt, rs, hist>>
       ELSE IF store[e].user_id # u
       THEN /\ last' = Response("resume", e, 404, "", FALSE)
            /\ UNCHANGED <<store, ckpt, rs, hist>>
       ELSE /\ hist[e].resumes < MaxResumes
            /\ hist' = [hist EXCEPT ![e].resumes = @ + 1,
                                    ![e].approved = @ \/ HumanApproves(request)]
            /\ LET ck == Rehydrate(e)
               IN  /\ ckpt' = [ckpt EXCEPT ![e] = ck]
                   /\ IF ~ck.has \/ ck.next = END
                      THEN \* nothing is pending: ainvoke returns the thread's values
                           /\ store' = SaveResumeResult(e, ck.values, NoPayload)
                           /\ last' = Response("resume", e, 200,
                                               StatusOfResume(NoPayload, ck.values.terminated),
                                               FALSE)
                           /\ UNCHANGED rs
                      ELSE /\ rs' = [rs EXCEPT ![e] =
                                        [on |-> TRUE, node |-> ck.next, st |-> ck.values,
                                         has_resume |-> TRUE, resume |-> request]]
                           /\ last' = Step("accepted", e, 0, "", FALSE, "", NoCalls)
                           /\ UNCHANGED store
    /\ UNCHANGED <<nextId, bg, calls, probe>>

\* the callers serialize the drivers of an execution: no request is sent for
\* one whose run is under way
SubmitActions(e, u, request) ==
    /\ ~bg[e].on
    /\ submit_actions(e, u, request)

\* the same handler, called by a client that does not wait for the detached
\* run: the code takes no lock and looks at no status before it drives the
\* graph
SubmitActionsWhileRunning(e, u, request) ==
    /\ bg[e].on
    /\ submit_actions(e, u, request)

\* one stage of the resumed graph, and the end of the handler
SubmitActionsStep(e, prof) ==
    /\ rs[e].on
    /\ LET n == rs[e].node
           st == rs[e].st
       IN  \E x \in NodeInputs(n, prof) :
             LET r == RunNode(n, st, rs[e].has_resume, rs[e].resume, x)
                 ck == Checkpoint(n, r.st)
             IN  /\ calls' = [calls EXCEPT ![e] = AddPublished(@, r.ev)]
                 /\ CASE r.kind = "ok" /\ ck.next # END ->
                           /\ ckpt' = [ckpt EXCEPT ![e] = ck]
                           /\ rs' = [rs EXCEPT ![e].node = ck.next, ![e].st = r.st,
                                               ![e].has_resume = FALSE]
                           /\ last' = Step("resuming", e, 0, "", FALSE, n, r.ev)
                           /\ UNCHANGED store
                      [] r.kind = "ok" /\ ck.next = END ->
                           /\ ckpt' = [ckpt EXCEPT ![e] = ck]
                           /\ rs' = [rs EXCEPT ![e] = NoCall]
                           /\ store' = SaveResumeResult(e, r.st, NoPayload)
                           /\ last' = Step("resume", e, 200,
                                           StatusOfResume(NoPayload, r.st.terminated),
                                           FALSE, n, r.ev)
                      [] r.kind = "interrupt" ->
                           /\ rs' = [rs EXCEPT ![e] = NoCall]
                           /\ store' = SaveResumeResult(e, st, r.payload)
                           /\ last' = Step("resume", e, 200,
                                           StatusOfResume(r.payload, st.terminated),
                                           FALSE, n, r.ev)
                           /\ UNCHANGED ckpt
                      [] r.kind = "raise" ->
                           \* nothing catches it: the request fails, nothing is saved
                           /\ rs' = [rs EXCEPT ![e] = NoCall]
                           /\ last' = Step("resume", e, 500, "", FALSE, n, r.ev)
                           /\ UNCHANGED <<store, ckpt>>
    /\ UNCHANGED <<nextId, bg, hist, probe>>

----------------------------------------------------------------------------
(* main.py: _startup, after the process has died.  Every task and request  *)
(* in flight is gone; the checkpoints survive when the persistent saver is *)
(* in use (keep) and are lost with the in-memory one.                      *)

Restart(keep) ==
    /\ bg' = [e \in ExecIds |-> NoTask]
    /\ rs' = [e \in ExecIds |-> NoCall]
    /\ ckpt' = IF keep THEN ckpt ELSE [e \in ExecIds |-> NoCkpt]
    /\ store' = mark_stuck_running_executions(R_RESTART)
    /\ last' = Step("restart", 0, 0, "", FALSE, "", NoCalls)
    /\ UNCHANGED <<nextId, calls, hist, probe>>

----------------------------------------------------------------------------

(* The handlers taken whole: the detached run from its start to the point *)
(* where ainvoke returns, and a resume from the request to the response.  *)
(* The collaborators behave as plan says, stage by stage.                 *)

SuccessPlan == [n \in Nodes |-> CHOOSE x \in NodeInputs(n, "store") : TRUE]

SumCalls(a, b) == [k \in CallKeys |-> a[k] + b[k]]

RECURSIVE Invoke(_, _, _, _, _, _)

\* the graph from node n on: how it ends, the checkpoint it leaves, the calls made
Invoke(n, st, has_resume, resume, ck, plan) ==
    LET r == RunNode(n, st, has_resume, resume, plan[n])
        c == Checkpoint(n, r.st)
    IN  IF r.kind = "ok" /\ c.next # END
        THEN LET t == Invoke(c.next, r.st, FALSE, NoActions, c, plan)
             IN  [t EXCEPT !.ev = SumCalls(r.ev, @)]
        ELSE IF r.kind = "ok"
        THEN [kind |-> "ok", st |-> r.st, payload |-> NoPayload, exc |-> "",
              ckpt |-> c, ev |-> r.ev]
        ELSE [kind |-> r.kind, st |-> st, payload |-> r.payload, exc |-> r.exc,
              ckpt |-> ck, ev |-> r.ev]

RunExecution(e, plan) ==
    /\ bg[e].on
    /\ bg[e].node = START
    /\ LET st == bg[e].st
           t == Invoke(NextNode(START, st), st, FALSE, NoActions, Checkpoint(START, st), plan)
       IN  /\ ckpt' = [ckpt EXCEPT ![e] = t.ckpt]
           /\ calls' = [calls EXCEPT ![e] = AddPublished(@, t.ev)]
           /\ store' = IF t.kind = "raise" THEN SaveRunException(e, t.exc)
                       ELSE SaveRunResult(e, t.st, t.payload)
           /\ last' = Step("run", e, 0, "", FALSE, "", t.ev)
    /\ bg' = [bg EXCEPT ![e] = NoTask]
    /\ UNCHANGED <<nextId, rs, hist, probe>>

SubmitActionsWhole(e, u, request, plan) ==
    /\ ~rs[e].on /\ ~bg[e].on
    /\ IF ~store[e].has
       THEN /\ last' = Response("resume", e, 500, "", FALSE)
            /\ UNCHANGED <<store, ckpt, calls, hist>>
       ELSE IF store[e].user_id # u
       THEN /\ last' = Response("resume", e, 404, "", FALSE)
            /\ UNCHANGED <<store, ckpt, calls, hist>>
       ELSE /\ hist[e].resumes < MaxResumes
            /\ hist' = [hist EXCEPT ![e].resumes = @ + 1,
                                    ![e].approved = @ \/ HumanApproves(request)]
            /\ LET ck == Rehydrate(e)
               IN  IF ~ck.has \/ ck.next = END
                   THEN /\ ckpt' = [ckpt EXCEPT ![e] = ck]
                        /\ store' = SaveResumeResult(e, ck.values, NoPayload)
                        /\ last' = Response("resume", e, 200,
                                            StatusOfResume(NoPayload, ck.values.terminated),
                                            FALSE)
                        /\ UNCHANGED calls
                   ELSE LET t == Invoke(ck.next, ck.values, TRUE, request, ck, plan)
                        IN  /\ ckpt' = [ckpt EXCEPT ![e] = t.ckpt]
                            /\ calls' = [calls EXCEPT ![e] = AddPublished(@, t.ev)]
                            /\ IF t.kind = "raise"
                               THEN /\ last' = Step("resume", e, 500, "", FALSE, "", t.ev)
                                    /\ UNCHANGED store
                               ELSE /\ store' = SaveResumeResult(e, t.st, t.payload)
                                    /\ last' = Step("resume", e, 200,
                                                    StatusOfResume(t.payload, t.st.terminated),
                                                    FALSE, "", t.ev)
    /\ UNCHANGED <<nextId, bg, rs, probe>>

----------------------------------------------------------------------------
(* api/executions.py: the handlers that read.  The reply is kept in last,  *)
(* with the user who asked and what the reply shows.                       *)

Reply(op, e, u, code, status, state, rows) ==
    [op |-> op, execution_id |-> e, code |-> code, status |-> status,
     created |-> FALSE, node |-> "", ev |-> NoCalls,
     user |-> u, state |-> state, rows |-> rows]

\* GET /executions/{execution_id}: the RuntimeError of get_execution for a
\* missing row is turned into 404 as well
get_execution_state(e, u) ==
    IF ~store[e].has
    THEN Reply("get", e, u, 404, "", NoState, {})
    ELSE IF store[e].user_id # u
    THEN Reply("get", e, u, 404, "", NoState, {})
    ELSE Reply("get", e, u, 200, store[e].status, store[e].state, {})

GetExecutionState(e, u) ==
    /\ last' = get_execution_state(e, u)
    /\ UNCHANGED <<store, nextId, ckpt, bg, rs, calls, hist, probe>>

\* GET /inbox: one summary per row that list_inbox returns
Inbox(u) ==
    /\ last' = Reply("inbox", 0, u, 200, "", NoState, inbox(u))
    /\ UNCHANGED <<store, nextId, ckpt, bg, rs, calls, hist, probe>>

----------------------------------------------------------------------------
(* The functions on their own: the status computed from a result, the merge *)
(* of a request into a state, and each stage on the states a run can hand   *)
(* it, terminated or not.                                                   *)

Payloads ==
    {NoPayload, HumanPayload, [HumanPayload EXCEPT !.type = "human_review"]}
    \cup {ReauthPayload(needs) : needs \in (SUBSET {"twitter", "linkedin"}) \ {{}}}

Scraped == scrape_content(InitialState("u1", "https://a", 1), ScrapeOk({ImageUrl})).st
Analysed == analyze_content(Scraped, AnalyzeNoLlm).st
Drafted == generate_posts(Analysed, "both", GenerateOk("d1")).st
Selected == select_image(Drafted, TRUE).st
Approved == apply_hitl_actions(Selected, ApproveWithImage)
Authed == check_authentication(Approved, FALSE, [twitter |-> TRUE, linkedin |-> TRUE]).st

\* the same, when select_image could not fetch the bytes of the image
AuthedNoBytes ==
    check_authentication(apply_hitl_actions(select_image(Drafted, FALSE).st, ApproveWithImage),
                         FALSE, [twitter |-> TRUE, linkedin |-> TRUE]).st

Terminated(st) == [st EXCEPT !.terminated = TRUE, !.terminate_reason = R_REJECT]

MergeStates == {Selected, Approved}

StageStates ==
    LET live == {InitialState("u1", "https://a", 1), Scraped, Selected, Approved, Authed,
                 AuthedNoBytes}
    IN  live \cup {Terminated(st) : st \in live}

\* the merged actions a state can hold: none yet, or six flags
MergedActions ==
    {NoActions} \cup {r \in AllRequests : r.edited_twitter = "" /\ r.edited_linkedin = ""}

\* states for the routing function: with and without a selected image,
\* terminated or not, under every combination of the flags
RouteStates ==
    {[Selected EXCEPT !.terminated = t, !.image_url = i, !.hitl_actions = a] :
        t \in BOOLEAN, i \in {"", ImageUrl}, a \in MergedActions}

\* the states check_authentication is entered with: those the routing after
\* await_human_actions sends on, under every decision about the image
AuthStates ==
    {st \in RouteStates :
        /\ ~st.terminated
        /\ route_after_hitl(st) \in {"continue_no_image", "continue_with_image"}}

InitPure ==
    /\ InitMachine
    /\ \/ \E payload \in Payloads, terminated \in BOOLEAN :
            probe = ProbeOf("status", NoState, FALSE, NoActions, payload, terminated,
                            "", "-")
       \/ \E st \in MergeStates, request \in AllRequests :
            probe = ProbeOf("merge", st, TRUE, request, NoPayload, st.terminated, "", "-")
       \/ \E st \in MergeStates, request \in SelectingRequests :
            probe = ProbeOf("merge", st, TRUE, request, NoPayload, st.terminated, "", "-")
       \/ \E st \in StageStates, n \in Nodes : \E x \in NodeInputs(n, "wide") :
            probe = ProbeOf("stage", st, FALSE, NoActions, NoPayload, st.terminated, n, x)
       \/ \E st \in StageStates, request \in SomeRequests :
            probe = ProbeOf("stage", st, TRUE, request, NoPayload, st.terminated,
                            "await_human_actions", "-")
       \/ \E st \in StageStates, x \in ConnectionInputs("wide") :
            probe = ProbeOf("stage", st, TRUE, Reject, NoPayload, st.terminated,
                            "check_authentication", x)
       \/ \E st \in AuthStates, x \in ConnectionInputs("wide"), has_resume \in BOOLEAN :
            probe = ProbeOf("stage", st, has_resume, NoDecision, NoPayload, st.terminated,
                            "check_authentication", x)
       \/ \E st \in RouteStates :
            probe = ProbeOf("route", st, FALSE, NoActions, NoPayload, st.terminated,
                            "await_human_actions", "-")

\* run_execution and submit_actions, from the result of ainvoke to the status saved
ProjectStatus ==
    /\ probe.kind = "status" /\ ~probe.done
    /\ probe' = [probe EXCEPT
                    !.done = TRUE,
                    !.run_status = StatusOfRun(probe.payload, probe.terminated),
                    !.resume_status = StatusOfResume(probe.payload, probe.terminated)]
    /\ UNCHANGED <<store, nextId, ckpt, bg, rs, calls, hist, last>>

\* await_human_actions once interrupt() has returned the request
MergeActions ==
    /\ probe.kind = "merge" /\ ~probe.done
    /\ LET merged == apply_hitl_actions(probe.st, probe.request)
       IN  probe' = [probe EXCEPT
                       !.done = TRUE,
                       !.res = Returned(merged, NoCalls),
                       !.next = NextNode("await_human_actions", merged)]
    /\ UNCHANGED <<store, nextId, ckpt, bg, rs, calls, hist, last>>

\* the conditional edge out of await_human_actions
RouteAfterHitl ==
    /\ probe.kind = "route" /\ ~probe.done
    /\ probe' = [probe EXCEPT !.done = TRUE, !.next = route_after_hitl(probe.st)]
    /\ UNCHANGED <<store, nextId, ckpt, bg, rs, calls, hist, last>>

\* one node of the graph and the edge taken after it
RunStage ==
    /\ probe.kind = "stage" /\ ~probe.done
    /\ LET r == RunNode(probe.node, probe.st, probe.has_resume, probe.request, probe.x)
       IN  probe' = [probe EXCEPT
                       !.done = TRUE,
                       !.res = r,
                       !.next = IF r.kind = "ok" THEN NextNode(probe.node, r.st)
                                ELSE probe.node]
    /\ UNCHANGED <<store, nextId, ckpt, bg, rs, calls, hist, last>>

----------------------------------------------------------------------------
(* Specifications *)

\* rows: the number of executions the clients create in all
NextOf(prof, rows) ==
    \/ \E u \in Users, url \in Urls : CreateExecution(u, url, rows)
    \/ \E e \in ExecIds : RunExecutionStep(e, prof)
    \/ \E e \in ExecIds : RunExecutionTimeout(e)
    \/ \E e \in ExecIds, u \in Users, request \in Requests(prof) : SubmitActions(e, u, request)
    \/ \E e \in ExecIds : SubmitActionsStep(e, prof)
    \/ \E keep \in BOOLEAN : Restart(keep)

\* one execution, followed through every stage
Next == NextOf("narrow", MaxDeep)

Spec == Init /\ [][Next]_vars

\* several executions of the same users, each handler taken whole; the users
\* resume what their inbox lists
NextStore ==
    \/ \E u \in Users, url \in Urls : CreateExecution(u, url, MaxExec)
    \/ \E e \in ExecIds : RunExecution(e, SuccessPlan)
    \/ \E e \in ExecIds : RunExecutionTimeout(e)
    \/ \E u \in Users, request \in Requests("store") : \E e \in inbox(u) :
            SubmitActionsWhole(e, u, request, SuccessPlan)
    \/ \E keep \in BOOLEAN : Restart(keep)

SpecStore == Init /\ [][NextStore]_vars

\* one execution and the decisions of the human who reads its drafts
NextReview == NextOf("review", MaxDeep)

SpecReview == Init /\ [][NextReview]_vars

\* one execution whose clients do not wait for each other: a resume may come
\* in while the detached run is still at work
NextOverlap ==
    \/ NextOf("store", MaxDeep)
    \/ \E e \in ExecIds, u \in Users, request \in Requests("store") :
            SubmitActionsWhileRunning(e, u, request)

SpecOverlap == Init /\ [][NextOverlap]_vars

\* several executions of several users, each handler taken whole; any user
\* may ask for any execution
NextAccess ==
    \/ \E u \in Users, url \in Urls : CreateExecution(u, url, MaxExec)
    \/ \E e \in ExecIds : RunExecution(e, SuccessPlan)
    \/ \E e \in ExecIds, u \in Users, request \in Requests("store") :
            SubmitActionsWhole(e, u, request, SuccessPlan)
    \/ \E e \in ExecIds, u \in Users : GetExecutionState(e, u)
    \/ \E u \in Users : Inbox(u)

SpecAccess == Init /\ [][NextAccess]_vars

\* the detached run gets the processor again and again, for as long as it is
\* pending; a crash is followed by the restart, which Restart takes as one
\* step
Fairness == \A e \in ExecIds : WF_vars(RunExecutionStep(e, "narrow"))

SpecFair == Spec /\ Fairness

\* the functions on their own
NextPure ==
    \/ ProjectStatus
    \/ MergeActions
    \/ RunStage
    \/ RouteAfterHitl

SpecPure == InitPure /\ [][NextPure]_vars

----------------------------------------------------------------------------
(* Properties *)

Active(e) == store[e].has /\ store[e].status \in ActiveStatuses

SameKey(e1, e2) ==
    /\ store[e1].has /\ store[e2].has
    /\ store[e1].user_id = store[e2].user_id
    /\ store[e1].idempotency_key = store[e2].idempotency_key

\* C1: in every reachable state of the execution table, at most one execution
\* per idempotency key has a status among running, awaiting_human and
\* awaiting_auth, also when earlier terminal executions of the key exist.
C1_OneActivePerKey ==
    \A e1, e2 \in ExecIds :
        (e1 # e2 /\ SameKey(e1, e2) /\ Active(e1)) => ~Active(e2)

\* C2: when a create call follows a create call directly and the execution the
\* first one answered with is still active, the second call for the same user
\* and url answers with the same execution_id, inserts no row and launches no
\* run.
C2_SecondCreateReturnsFirst ==
    [][ (/\ last.op = "create"
         /\ last'.op = "create"
         /\ Active(last.execution_id)
         /\ store'[last'.execution_id].user_id = store[last.execution_id].user_id
         /\ store'[last'.execution_id].idempotency_key
                = store[last.execution_id].idempotency_key)
        => (/\ last'.execution_id = last.execution_id
            /\ ~last'.created
            /\ store' = store
            /\ bg' = bg) ]_vars

\* the status the specification gives for a result
StatusTable(payload, terminated) ==
    IF terminated THEN "terminated"
    ELSE IF payload.present /\ payload.type = "reauth_required" THEN "awaiting_auth"
    ELSE IF payload.present THEN "awaiting_human"
    ELSE "completed"

UploadOrPublish(ev) ==
    ev.upload_twitter + ev.upload_linkedin + ev.publish_twitter + ev.publish_linkedin

\* C4: on a state with terminated = TRUE no stage calls the upload or publish
\* collaborators; upload_image, publish_twitter and publish_linkedin return the
\* state as it was; route_after_hitl and _route_after_auth both lead to the end.
C4_TerminatedStagesDoNothing ==
    (probe.kind = "stage" /\ probe.done /\ probe.st.terminated) =>
        /\ UploadOrPublish(probe.res.ev) = 0
        /\ probe.node \in {"upload_image", "publish_twitter", "publish_linkedin"}
              => probe.res = Returned(probe.st, NoCalls)
        /\ probe.node \in {"await_human_actions", "check_authentication"}
              => probe.next = END
        /\ HitlEdges(route_after_hitl(probe.st)) = END
        /\ AuthEdges(_route_after_auth(probe.st)) = END

\* a terminated state that holds approved texts and an approved image, given
\* to a publish stage whose collaborator would succeed
WitnessC4 ==
    /\ probe.kind = "stage" /\ probe.done /\ probe.st.terminated
    /\ probe.node = "publish_linkedin" /\ probe.x = "success"
    /\ probe.st.approved_linkedin_post = "d1"
    /\ probe.st.hitl_actions.approve_content

\* C5: the status saved after a run or a resume depends on the interrupt
\* payload and the terminated flag alone: terminated gives terminated, whatever
\* the interrupt; else a reauth_required payload gives awaiting_auth; else any
\* payload gives awaiting_human; else completed.  It is never running, and the
\* create path and the resume path give the same status.
C5_StatusIsFunctionOfResult ==
    (probe.kind = "status" /\ probe.done) =>
        /\ probe.run_status = StatusTable(probe.payload, probe.terminated)
        /\ probe.resume_status = probe.run_status
        /\ probe.run_status \in Statuses \ {"running"}

\* terminated together with a pending reauth interrupt
WitnessC5 ==
    /\ probe.kind = "status" /\ probe.done
    /\ probe.terminated /\ probe.payload.type = "reauth_required"
    /\ probe.run_status = "terminated"

\* C3: no upload and no publish call is made for an execution unless a human
\* has submitted a request for it that approves (outright or by an edit) and
\* does not reject, whatever creates, resumes, restarts and rehydrations came
\* before.
C3_NoPublishWithoutApproval ==
    UploadOrPublish(last.ev) > 0 => hist[last.execution_id].approved

\* a publish call made while the second request for the execution is handled
WitnessC3 ==
    /\ last.ev.publish_twitter = 1
    /\ hist[last.execution_id].approved
    /\ hist[last.execution_id].resumes = MaxResumes

\* a step of the resume handler of execution e
ResumeStep(e) ==
    /\ rs[e].on
    /\ rs'[e] # rs[e]
    /\ last'.execution_id = e
    /\ last'.op \in {"resuming", "resume"}

\* C7: a resume of a suspended execution (awaiting_human or awaiting_auth)
\* whose request has reject_content = TRUE makes no publish or upload call and
\* ends with status terminated, whatever else the request holds and whatever
\* the connections table holds.
C7_RejectTerminates ==
    [][ \A e \in ExecIds :
          (/\ ResumeStep(e)
           /\ rs[e].resume.reject_content
           /\ store[e].status \in {"awaiting_human", "awaiting_auth"})
          => /\ UploadOrPublish(last'.ev) = 0
             /\ last'.op = "resume"
                  => /\ last'.code = 200
                     /\ last'.status = "terminated"
                     /\ store'[e].status = "terminated" ]_vars

\* C8: a resume at await_human with a request whose six flags are false and
\* whose edited texts are empty goes back to await_human and suspends there:
\* the response is 200 with status awaiting_human, no draft is generated,
\* check_authentication is not entered; and the same holds for the next such
\* request.
C8_NoDecisionResuspends ==
    [][ \A e \in ExecIds :
          (/\ ResumeStep(e)
           /\ rs[e].resume = NoDecision
           /\ rs[e].node = "await_human_actions"
           /\ store[e].status = "awaiting_human")
          => IF rs[e].has_resume
             THEN /\ last'.op = "resuming"
                  /\ rs'[e].on
                  /\ rs'[e].node = "await_human_actions"
                  /\ ckpt'[e].next = "await_human_actions"
                  /\ last'.ev.generate = 0
                  /\ rs'[e].st.twitter_draft = rs[e].st.twitter_draft
                  /\ rs'[e].st.linkedin_draft = rs[e].st.linkedin_draft
             ELSE /\ last'.op = "resume"
                  /\ last'.code = 200
                  /\ last'.status = "awaiting_human"
                  /\ store'[e].status = "awaiting_human"
                  /\ ckpt'[e].next = "await_human_actions" ]_vars

\* the last request allowed has just been answered, as the one before it:
\* no decision, and the execution is suspended at await_human again
WitnessC8 ==
    \E e \in ExecIds :
        /\ hist[e].resumes = MaxResumes
        /\ ~hist[e].approved
        /\ last = Step("resume", e, 200, "awaiting_human", FALSE,
                       "await_human_actions", NoCalls)
        /\ store[e].state.hitl_actions = [NoDecision EXCEPT !.set = TRUE]
        /\ ckpt[e].has /\ ckpt[e].next = "await_human_actions"

LowRelevance(st) == st.analysed /\ st.relevance < RelevanceMin

\* C9: a state whose recorded relevance score is below 0.35 is terminated with
\* the reason analyze gives, holds no draft and no selected image, is never
\* saved with an interrupt, and the execution it is saved for has status
\* terminated; no generation call is made for it.
C9_LowRelevanceTerminates ==
    \A e \in ExecIds :
        /\ \A st \in {bg[e].st, rs[e].st, ckpt[e].values, store[e].state} :
              LowRelevance(st) =>
                  /\ st.terminated
                  /\ st.terminate_reason = R_RELEVANCE
                  /\ st.twitter_draft = Absent
                  /\ st.linkedin_draft = Absent
                  /\ ~st.image_set
        /\ (store[e].has /\ LowRelevance(store[e].state)) =>
              /\ store[e].status = "terminated"
              /\ ~store[e].interrupt.present
        /\ (bg[e].on /\ LowRelevance(bg[e].st)
              /\ last.op = "stage" /\ last.execution_id = e) => last.ev.generate = 0
        /\ (rs[e].on /\ LowRelevance(rs[e].st)
              /\ last.op = "resuming" /\ last.execution_id = e) => last.ev.generate = 0

\* a run of low relevance has ended
WitnessC9 ==
    \E e \in ExecIds :
        /\ LowRelevance(store[e].state)
        /\ store[e].state.relevance = 20
        /\ store[e].status = "terminated"
        /\ last.op = "stage" /\ last.node = "await_human_actions"

BothApproved(st) ==
    /\ Strip(GetOr(st.approved_twitter_post)) # ""
    /\ Strip(GetOr(st.approved_linkedin_post)) # ""

PublishOutcome(published) == IF published = 1 THEN "published" ELSE "failed"

\* C10: with approved texts for both platforms, publish_twitter makes its call
\* and, whether the call succeeds, fails or raises, hands over to
\* publish_linkedin, which makes its call too; the state saved records each
\* platform as published or failed according to its own call, terminated
\* stays false and the status is completed.
C10_PublishIndependent ==
    [][ \A e \in ExecIds :
          (/\ ResumeStep(e)
           /\ ~rs[e].st.terminated
           /\ BothApproved(rs[e].st))
          => /\ (rs[e].node = "publish_twitter" /\ rs[e].st.pub_twitter # "published")
                  => /\ last'.ev.publish_twitter = 1
                     /\ rs'[e].on
                     /\ rs'[e].node = "publish_linkedin"
                     /\ ~rs'[e].st.terminated
                     /\ rs'[e].st.pub_twitter = PublishOutcome(last'.ev.published_twitter)
             /\ (rs[e].node = "publish_linkedin" /\ rs[e].st.pub_linkedin # "published")
                  => /\ last'.ev.publish_linkedin = 1
                     /\ last'.op = "resume" /\ last'.code = 200
                     /\ last'.status = "completed"
                     /\ store'[e].status = "completed"
                     /\ ~store'[e].state.terminated
                     /\ store'[e].state.pub_twitter = rs[e].st.pub_twitter
                     /\ store'[e].state.pub_linkedin
                            = PublishOutcome(last'.ev.published_linkedin) ]_vars

\* twitter failed, linkedin published, and the run completed
WitnessC10 ==
    \E e \in ExecIds :
        /\ last.op = "resume" /\ last.execution_id = e
        /\ last.node = "publish_linkedin" /\ last.ev.published_linkedin = 1
        /\ store[e].status = "completed"
        /\ store[e].state.pub_twitter = "failed"
        /\ store[e].state.pub_linkedin = "published"

Settled == {"awaiting_human", "awaiting_auth", "completed", "terminated"}

\* C6: an execution whose status is running eventually has a status among
\* awaiting_human, awaiting_auth, completed and terminated, whether its stages
\* succeed, one of them raises, the timeout fires or the process restarts.
C6_RunningSettles ==
    \A e \in ExecIds :
        (store[e].has /\ store[e].status = "running") ~> (store[e].status \in Settled)

\* a run that ended by an exception of a stage
WitnessC6 ==
    \E e \in ExecIds :
        /\ store[e].status = "terminated"
        /\ store[e].state.terminate_reason = R_QUOTA
        /\ last.op = "stage" /\ last.node = "generate_posts"
\* the row startup recovery leaves for an execution it found running
Recovered(e) ==
    /\ store[e].has
    /\ store[e].status = "terminated"
    /\ store[e].state.terminated
    /\ store[e].state.terminate_reason = R_RESTART

TimeoutStep(e) ==
    /\ bg[e].on
    /\ last'.op = "timeout"
    /\ last'.execution_id = e

\* C12: when the timeout of a run started by create fires, the execution is
\* saved with status terminated and the timeout reason, without an interrupt;
\* the run is gone from then on: it runs no further stage, is never started
\* again, and every later write to the row is the work of another handler.
C12_TimeoutTerminates ==
    [][ \A e \in ExecIds :
          /\ TimeoutStep(e)
                => /\ store'[e].status = "terminated"
                   /\ store'[e].state.terminated
                   /\ store'[e].state.terminate_reason = R_TIMEOUT
                   /\ ~store'[e].interrupt.present
                   /\ ~bg'[e].on
                   /\ ckpt'[e] = ckpt[e]
                   /\ calls'[e] = calls[e]
          /\ (store[e].has /\ ~bg[e].on)
                => /\ ~bg'[e].on
                   /\ ~(last'.op = "stage" /\ last'.execution_id = e /\ last' # last)
                   /\ store'[e] # store[e] => last'.op \in {"resume", "restart"} ]_vars

\* the timeout has fired while the drafts were being generated
WitnessC12 ==
    \E e \in ExecIds :
        /\ last.op = "timeout" /\ last.execution_id = e
        /\ store[e].status = "terminated"
        /\ store[e].state.terminate_reason = R_TIMEOUT
        /\ ckpt[e].has /\ ckpt[e].next = "generate_posts"
        /\ ~bg[e].on
\* C13: the snapshot saved when the timeout fires holds what the stages that had
\* completed by then produced (the scraped content, the analysis, the drafts,
\* the selected image), together with terminated = TRUE and the timeout reason.
C13_TimeoutKeepsPartialState ==
    [][ \A e \in ExecIds :
          (TimeoutStep(e) /\ ckpt[e].has)
            => store'[e].state = [ckpt[e].values EXCEPT !.terminated = TRUE,
                                                        !.terminate_reason = R_TIMEOUT] ]_vars
\* the row of e holds a settled status, and a terminated one says why
PersistedOutcome(row) ==
    /\ row.status \in {"awaiting_human", "awaiting_auth", "completed", "terminated"}
    /\ row.status = "terminated"
          => row.state.terminated /\ row.state.terminate_reason # ""

\* C14: whatever a stage does, a failure it raises included, the detached run
\* ends with the execution saved under a settled status (terminated with a
\* reason when it failed), and a resume of a suspended execution ends with a
\* 200 response whose status is the one saved; no failure of a stage reaches
\* the caller as a fault.
C14_StageFailureIsPersisted ==
    [][ \A e \in ExecIds :
          /\ (bg[e].on /\ ~bg'[e].on /\ last'.op = "stage")
                => PersistedOutcome(store'[e])
          /\ (/\ ResumeStep(e)
              /\ last'.op = "resume"
              /\ store[e].status \in {"awaiting_human", "awaiting_auth"})
                => /\ last'.code = 200
                   /\ store'[e].status = last'.status
                   /\ PersistedOutcome(store'[e]) ]_vars
RegenNodes == {"generate_twitter_only", "generate_linkedin_only"}

\* a request that asks for a regeneration and does not reject
AsksRegeneration(request) ==
    /\ ~request.reject_content
    /\ request.regenerate_twitter \/ request.regenerate_linkedin

\* C15: a resume that enters at await_human, the execution being suspended
\* there, and whose request sets regenerate_twitter or regenerate_linkedin and
\* not reject_content goes from await_human to the regeneration of one draft
\* (Twitter's when it is asked for), makes the generation call, replaces that
\* draft alone and suspends at await_human again with status awaiting_human;
\* check_authentication, upload_image and the publish stages are not entered
\* and no upload or publish call is made, whatever approval or edit the
\* request also holds.  When the generation call raises, the row stays as it
\* was, awaiting_human.
C15_RegenerateResuspends ==
    [][ \A e \in ExecIds :
          (/\ ResumeStep(e)
           /\ AsksRegeneration(rs[e].resume)
           /\ store[e].status = "awaiting_human"
           /\ rs[e].node \in RegenNodes \cup {"await_human_actions"})
          => /\ UploadOrPublish(last'.ev) = 0
             /\ rs'[e].on => rs'[e].node \in RegenNodes \cup {"await_human_actions"}
             /\ store'[e].status = "awaiting_human"
             /\ (rs[e].node = "await_human_actions" /\ rs[e].has_resume)
                   => /\ last'.op = "resuming"
                      /\ rs'[e].node = IF rs[e].resume.regenerate_twitter
                                       THEN "generate_twitter_only"
                                       ELSE "generate_linkedin_only"
             /\ rs[e].node \in RegenNodes
                   => /\ last'.ev.generate = 1
                      /\ \/ /\ last'.op = "resume" /\ last'.code = 500
                            /\ store'[e] = store[e]
                         \/ /\ last'.op = "resuming"
                            /\ rs'[e].node = "await_human_actions"
                            /\ ~rs'[e].has_resume
                            /\ IF rs[e].node = "generate_twitter_only"
                               THEN /\ rs'[e].st.twitter_draft \in DraftTexts
                                    /\ rs'[e].st.linkedin_draft = rs[e].st.linkedin_draft
                               ELSE /\ rs'[e].st.linkedin_draft \in DraftTexts
                                    /\ rs'[e].st.twitter_draft = rs[e].st.twitter_draft
             /\ (rs[e].node = "await_human_actions" /\ ~rs[e].has_resume)
                   => /\ last'.op = "resume" /\ last'.code = 200
                      /\ last'.status = "awaiting_human"
                      /\ store'[e].state = rs[e].st
                      /\ store'[e].interrupt = HumanPayload ]_vars

\* a request that approves, edits the Twitter text and asks for a new LinkedIn
\* draft has been answered: the new draft is there and the execution waits
WitnessC15 ==
    \E e \in ExecIds :
        /\ last = Step("resume", e, 200, "awaiting_human", FALSE,
                       "await_human_actions", NoCalls)
        /\ store[e].status = "awaiting_human"
        /\ store[e].state.hitl_actions.regenerate_linkedin
        /\ store[e].state.hitl_actions.approve_content
        /\ store[e].state.approved_twitter_post = "e1"
        /\ store[e].state.linkedin_draft = "d2"
        /\ store[e].state.twitter_draft = "d1"
\* the rules of the routing table, in the order of their priority: a rule is
\* the set of inputs it applies to and the route it gives
RouteRules ==
    << [applies |-> [t \in BOOLEAN, a \in MergedActions, image \in BOOLEAN |->
                        t \/ a.reject_content],
        route |-> "terminate"],
       [applies |-> [t \in BOOLEAN, a \in MergedActions, image \in BOOLEAN |->
                        a.regenerate_twitter],
        route |-> "regen_twitter"],
       [applies |-> [t \in BOOLEAN, a \in MergedActions, image \in BOOLEAN |->
                        a.regenerate_linkedin],
        route |-> "regen_linkedin"],
       [applies |-> [t \in BOOLEAN, a \in MergedActions, image \in BOOLEAN |->
                        ~a.approve_content],
        route |-> "await_more"],
       [applies |-> [t \in BOOLEAN, a \in MergedActions, image \in BOOLEAN |->
                        a.reject_image],
        route |-> "continue_no_image"],
       [applies |-> [t \in BOOLEAN, a \in MergedActions, image \in BOOLEAN |->
                        a.approve_image /\ image],
        route |-> "continue_with_image"],
       [applies |-> [t \in BOOLEAN, a \in MergedActions, image \in BOOLEAN |-> TRUE],
        route |-> "continue_no_image"] >>

\* the route of the first rule that applies
RouteTable(t, a, image) ==
    LET first == CHOOSE i \in 1..Len(RouteRules) :
                    /\ RouteRules[i].applies[t, a, image]
                    /\ \A j \in 1..(i - 1) : ~RouteRules[j].applies[t, a, image]
    IN  RouteRules[first].route

\* C16: for every combination of terminated, the six flags and the presence of
\* an image URL, route_after_hitl gives the route of the priority table:
\* terminate when terminated or rejected, else Twitter regeneration, else
\* LinkedIn regeneration, else back to await_human when not approved, else no
\* image when the image is rejected, else with image when it is approved and
\* there is one, else no image.
C16_RouteIsPriorityTable ==
    (probe.kind = "route" /\ probe.done) =>
        probe.next = RouteTable(probe.st.terminated, probe.st.hitl_actions,
                                probe.st.image_url # "")

\* approved content, an image that is both approved and rejected: no image
WitnessC16 ==
    /\ probe.kind = "route" /\ probe.done
    /\ ~probe.st.terminated /\ probe.st.image_url = ImageUrl
    /\ probe.st.hitl_actions.approve_content
    /\ probe.st.hitl_actions.approve_image /\ probe.st.hitl_actions.reject_image
    /\ ~probe.st.hitl_actions.regenerate_twitter
    /\ ~probe.st.hitl_actions.regenerate_linkedin
    /\ ~probe.st.hitl_actions.reject_content
    /\ probe.next = "continue_no_image"
\* the request carries an edited text that is not blank
HasEdit(request) ==
    Strip(request.edited_twitter) # "" \/ Strip(request.edited_linkedin) # ""

\* C17: a request with an edited text that is not blank for either platform and
\* with neither approve_content nor reject_content gives merged actions with
\* approve_content = TRUE, approved texts for both platforms (the edit where
\* there is one) and, unless a regeneration is asked for, the route to
\* check_authentication; blank or empty edits alone give no approval and do not
\* leave the review loop; an edit with reject_content = TRUE terminates with the
\* rejection reason and leads to the end.
C17_EditIsImplicitApproval ==
    (probe.kind = "merge" /\ probe.done /\ ~probe.st.terminated) =>
        LET r == probe.request
            m == probe.res.st
            regen == r.regenerate_twitter \/ r.regenerate_linkedin
        IN  /\ (HasEdit(r) /\ ~r.approve_content /\ ~r.reject_content)
                  => /\ m.hitl_actions.approve_content
                     /\ ~m.terminated
                     /\ m.approved_twitter_post # Absent
                     /\ m.approved_linkedin_post # Absent
                     /\ Strip(r.edited_twitter) # ""
                           => m.approved_twitter_post = Strip(r.edited_twitter)
                     /\ Strip(r.edited_linkedin) # ""
                           => m.approved_linkedin_post = Strip(r.edited_linkedin)
                     /\ ~regen => probe.next = "check_authentication"
            /\ (~HasEdit(r) /\ ~r.approve_content)
                  => /\ ~m.hitl_actions.approve_content
                     /\ m.approved_twitter_post = probe.st.approved_twitter_post
                     /\ m.approved_linkedin_post = probe.st.approved_linkedin_post
                     /\ probe.next \in RegenNodes \cup {"await_human_actions", END}
            /\ (HasEdit(r) /\ r.reject_content)
                  => /\ m.terminated
                     /\ m.terminate_reason = R_REJECT
                     /\ m.hitl_actions.approve_content = r.approve_content
                     /\ probe.next = END

\* a blank Twitter edit with a LinkedIn edit and no flag at all: approved, the
\* LinkedIn text is the edit, the Twitter text the draft
WitnessC17 ==
    /\ probe.kind = "merge" /\ probe.done
    /\ probe.st = Selected
    /\ probe.request = Request(FALSE, FALSE, FALSE, FALSE, FALSE, FALSE, " ", "e1")
    /\ probe.res.st.hitl_actions.approve_content
    /\ probe.res.st.approved_linkedin_post = "e1"
    /\ probe.res.st.approved_twitter_post = "d1"
    /\ probe.next = "check_authentication"
\* no request of the review profile edits the LinkedIn text
LinkedinNeverEdited == \A r \in ReviewRequests : Strip(r.edited_linkedin) = ""

\* C18: the text of a platform the human never edited is, when it is published
\* after an approval, the draft generated last for that platform, whatever
\* requests came before (approval or an edit of the other platform together
\* with a regeneration included).  The LinkedIn text is the one never edited.
C18_PublishesLatestDraft ==
    [][ \A e \in ExecIds :
          (/\ LinkedinNeverEdited
           /\ ResumeStep(e)
           /\ rs[e].node = "publish_linkedin"
           /\ last'.ev.publish_linkedin = 1)
          => rs[e].st.approved_linkedin_post = rs[e].st.linkedin_draft ]_vars
\* the texts a human may have typed, as they are stored
StoredEdits == {Strip(t) : t \in EditTexts} \ {""}

\* the state a step of the resume of e leaves: the one handed to the next
\* stage, or the one saved when the resume ends
StateAfter(e) == IF rs'[e].on THEN rs'[e].st ELSE store'[e].state

\* C19: once the approved Twitter text comes from an edit, no stage changes it
\* (not the merge of a request that approves without editing it, not a
\* regeneration of the Twitter draft) except the merge of a request whose
\* edited Twitter text is not blank, which sets it to that text.
C19_EditedTextIsKept ==
    [][ \A e \in ExecIds :
          (/\ ResumeStep(e)
           /\ rs[e].st.approved_twitter_post \in StoredEdits
           /\ rs'[e].on \/ store'[e] # store[e])
          => LET et == Strip(rs[e].resume.edited_twitter)
                 merges == /\ rs[e].node = "await_human_actions"
                           /\ rs[e].has_resume
                           /\ ~rs[e].st.terminated
             IN  StateAfter(e).approved_twitter_post
                    = IF merges /\ et # "" THEN et
                      ELSE rs[e].st.approved_twitter_post ]_vars

\* the Twitter text was edited and its draft regenerated in one request, then
\* approved without an edit: the edit is what has been published, not the draft
WitnessC19 ==
    \E e \in ExecIds :
        /\ last.op = "resume" /\ last.status = "completed" /\ last.execution_id = e
        /\ store[e].state.approved_twitter_post = "e1"
        /\ store[e].state.twitter_draft = "d2"
        /\ store[e].state.hitl_actions.edited_twitter = ""
        /\ store[e].state.pub_twitter = "published"
\* the providers for which cr holds no valid connection
Lacking(cr) ==
    {p \in {"twitter", "linkedin"} :
        IF p = "twitter" THEN ~cr.twitter ELSE ~cr.linkedin}

\* the connections a step of check_authentication has read, as the state it
\* leaves records them
ReadConnections(st) == [twitter |-> st.twitter_present, linkedin |-> st.linkedin_present]

PublishSide == {"upload_image", "publish_twitter"}

\* C20: when check_authentication, reached in the course of a run or a resume,
\* finds a provider without a valid connection, the invocation ends suspended:
\* interrupt of type reauth_required, needs naming the providers that lack
\* one, status awaiting_auth.  A resume of an execution suspended there goes on to
\* the upload or publish stage when both connections are valid by then, and
\* otherwise ends terminated with the reason that authentication was not
\* completed; it never ends with status awaiting_auth.
C20_ReauthSuspendsOnce ==
    [][ \A e \in ExecIds :
          /\ (/\ ResumeStep(e)
              /\ rs[e].node = "check_authentication"
              /\ ~rs[e].has_resume
              /\ ~rs[e].st.terminated)
                => \/ /\ last'.op = "resuming"
                      /\ rs'[e].node \in PublishSide
                      /\ Lacking(ReadConnections(rs'[e].st)) = {}
                   \/ /\ last'.op = "resume" /\ last'.code = 200
                      /\ last'.status = "awaiting_auth"
                      /\ store'[e].status = "awaiting_auth"
                      /\ store'[e].interrupt.type = "reauth_required"
                      /\ store'[e].interrupt.needs # {}
                      /\ store'[e].interrupt.needs \subseteq {"twitter", "linkedin"}
                      /\ ~store'[e].state.terminated
                      /\ ckpt'[e].next = "check_authentication"
          /\ (/\ ResumeStep(e)
              /\ store[e].status = "awaiting_auth"
              /\ rs[e].node = "check_authentication"
              /\ rs[e].has_resume)
                => \/ /\ last'.op = "resuming"
                      /\ rs'[e].node \in PublishSide
                      /\ ~rs'[e].st.terminated
                      /\ Lacking(ReadConnections(rs'[e].st)) = {}
                   \/ /\ last'.op = "resume" /\ last'.code = 200
                      /\ last'.status = "terminated"
                      /\ store'[e].status = "terminated"
                      /\ store'[e].state.terminate_reason = R_AUTH
                      /\ Lacking(ReadConnections(store'[e].state)) # {}
          /\ (/\ ResumeStep(e)
              /\ store[e].status = "awaiting_auth"
              /\ last'.op = "resume")
                => last'.status # "awaiting_auth" ]_vars
\* the thread of e holds no values: submit_actions will load the stored snapshot
CheckpointMissing(e) == ~(ckpt[e].has /\ ckpt[e].values.execution_id # 0)

\* the stored snapshot can be loaded into the thread
CanRehydrate(e) ==
    /\ store[e].has
    /\ store[e].state.user_id # ""
    /\ store[e].state.url # ""
    /\ store[e].state.execution_id # 0

\* the step in which submit_actions has prepared the thread of e and hands the
\* request to the graph
ResumeAccepted(e) ==
    /\ ~rs[e].on /\ rs'[e].on
    /\ last'.op = "accepted" /\ last'.execution_id = e

\* the stage at which an execution with this status is suspended
SuspendedAt(status) ==
    IF status = "awaiting_auth" THEN "check_authentication" ELSE "await_human_actions"

\* C21: when the checkpoint of a suspended execution is missing at resume time
\* and the stored snapshot holds user_id, url and execution_id, the resume
\* starts from the snapshot (hitl_actions included) at the stage that
\* suspended: check_authentication for awaiting_auth, await_human for
\* awaiting_human.
C21_RehydrateReentersAtSuspension ==
    [][ \A e \in ExecIds :
          (/\ ResumeAccepted(e)
           /\ CheckpointMissing(e)
           /\ CanRehydrate(e)
           /\ store[e].status \in {"awaiting_human", "awaiting_auth"})
          => /\ rs'[e].st = store[e].state
             /\ rs'[e].st.hitl_actions = store[e].state.hitl_actions
             /\ rs'[e].node = SuspendedAt(store[e].status) ]_vars
\* the step in which submit_actions answers or accepts a request for e
ResumeRequested(e) ==
    /\ ~rs[e].on
    /\ last' # last
    /\ last'.execution_id = e
    /\ last'.op \in {"resume", "accepted"}

\* C22: a resume for an execution_id whose checkpoint is missing and whose
\* snapshot cannot be loaded (there is no row, or the snapshot lacks user_id,
\* url or execution_id) is answered with not found (404); no stage runs, no
\* call is made and the table is left as it was.
C22_NoRehydrationIsNotFound ==
    [][ \A e \in ExecIds :
          (/\ ResumeRequested(e)
           /\ CheckpointMissing(e)
           /\ ~CanRehydrate(e))
          => /\ last'.op = "resume"
             /\ last'.code = 404
             /\ ~rs'[e].on
             /\ store' = store
             /\ calls' = calls ]_vars

----------------------------------------------------------------------------
(* Drivers of one execution that overlap *)

\* the drivers of execution e that have a stage in hand: the detached run,
\* once ainvoke has taken its input, and a resume between its acceptance and
\* its response
Executing(e) ==
    (IF bg[e].on /\ bg[e].node # START THEN {"run"} ELSE {}) \cup
    (IF rs[e].on THEN {"resume"} ELSE {})

\* C23: for one execution at most one stage executes at any time, whatever
\* the interleaving of the detached run and the resume calls, a resume sent
\* while the status is still running included
C23_OneStageAtATime == \A e \in ExecIds : Cardinality(Executing(e)) <= 1

----------------------------------------------------------------------------
(* A resume of an execution that a resume has already settled *)

\* the row of e shows an outcome that only a resume produces: completed (the
\* detached run always suspends for the human first) or the human's rejection
DrivenByResume(e) ==
    /\ store[e].has
    /\ \/ store[e].status = "completed"
       \/ /\ store[e].status = "terminated"
          /\ store[e].state.terminate_reason = R_REJECT

\* C24: once a resume has driven an execution to completed or terminated, a
\* further resume of it executes no stage, makes no upload or publish call
\* and leaves the row's status and snapshot as they are
C24_SettledResumeIsInert ==
    [][ \A e \in ExecIds :
          (ResumeRequested(e) /\ DrivenByResume(e)) =>
             /\ last'.op = "resume"
             /\ ~rs'[e].on
             /\ store'[e].status = store[e].status
             /\ store'[e].state = store[e].state
             /\ calls' = calls ]_vars

----------------------------------------------------------------------------
(* What create leaves behind when it answers *)

\* the step is create_execution_endpoint taking its second branch for e
Creates(e) == nextId' = e /\ nextId # e

\* C25: create writes the initial row (status running, snapshot not
\* terminated, both publish statuses not_started) before it launches the run
\* and before it answers; the answer says running and no stage has run yet,
\* so the execution_id it returns is readable from the table
C25_CreatePersistsBeforeLaunch ==
    [][ \A e \in ExecIds :
          Creates(e) =>
             /\ store'[e].has
             /\ store'[e].status = "running"
             /\ ~store'[e].state.terminated
             /\ store'[e].state.pub_twitter = "not_started"
             /\ store'[e].state.pub_linkedin = "not_started"
             /\ store'[e].state.execution_id = e
             /\ bg'[e].on /\ bg'[e].node = START
             /\ ~ckpt'[e].has
             /\ calls' = calls
             /\ last' = Response("create", e, 200, "running", TRUE) ]_vars

\* create has just answered with a new execution whose run has not started
WitnessC25 ==
    /\ last.op = "create" /\ last.created
    /\ last.execution_id \in ExecIds
    /\ store[last.execution_id].status = "running"
    /\ bg[last.execution_id].on /\ bg[last.execution_id].node = START

----------------------------------------------------------------------------
(* create for a pair whose executions are all over *)

\* the rows of (u, url)
RowsOf(u, url) ==
    {e \in ExecIds : store[e].has /\ store[e].user_id = u /\ store[e].url = url}

\* (u, url) has executions and each is completed or terminated
AllTerminal(u, url) ==
    /\ RowsOf(u, url) # {}
    /\ \A e \in RowsOf(u, url) : store[e].status \in {"completed", "terminated"}

\* the step is create_execution_endpoint answering a request for (u, url)
CreateAnswered(u, url) ==
    /\ last' # last
    /\ last'.op = "create"
    /\ last'.execution_id \in ExecIds
    /\ store'[last'.execution_id].user_id = u
    /\ store'[last'.execution_id].url = url

\* C26: when every execution of (user_id, url) is completed or terminated,
\* create inserts a new execution with a fresh execution_id and status
\* running, launches its run and leaves the earlier rows as they are
C26_CreateAfterTerminalIsFresh ==
    [][ \A u \in Users, url \in Urls :
          (AllTerminal(u, url) /\ CreateAnswered(u, url)) =>
             LET e == last'.execution_id
             IN  /\ last'.created /\ last'.status = "running"
                 /\ ~store[e].has
                 /\ store'[e].has /\ store'[e].status = "running"
                 /\ bg'[e].on
                 /\ \A f \in ExecIds \ {e} : store'[f] = store[f] ]_vars

\* create has just added an execution next to a finished one of the same pair
WitnessC26 ==
    /\ last.op = "create" /\ last.created
    /\ \E f \in ExecIds \ {last.execution_id} :
          /\ SameKey(f, last.execution_id)
          /\ store[f].status \in {"completed", "terminated"}
    /\ store[last.execution_id].status = "running"
    /\ bg[last.execution_id].on

----------------------------------------------------------------------------
(* The scrape collaborator fails *)

\* the step is the detached run of e executing scrape_content
ScrapeStep(e) ==
    /\ bg[e].on /\ bg[e].node = "scrape_content"
    /\ last'.op = "stage" /\ last'.node = "scrape_content"
    /\ last'.execution_id = e

\* the snapshot the run of e holds after the step: the state it carries on
\* with, or the one it has saved when the step ended it
CarriedState(e) == IF bg'[e].on THEN bg'[e].st ELSE store'[e].state

\* C27: when the scrape collaborator fails, for content that is unavailable
\* or too short, the run is terminated at once: the scrape call was made
\* exactly once and the reason is one of the scrape's own
C27_ScrapeFailureIsNotRetried ==
    [][ \A e \in ExecIds :
          (ScrapeStep(e) /\ CarriedState(e).terminated) =>
             /\ last'.ev.scrape = 1
             /\ CarriedState(e).terminate_reason \in {R_SCRAPE, R_SHORT} ]_vars

\* a scrape stage on the bench, run on a state that is not terminated, whose
\* collaborator meets network errors (x.fails of them before an answer)
TransientScrape ==
    /\ probe.kind = "stage" /\ probe.done
    /\ probe.node = "scrape_content"
    /\ ~probe.st.terminated
    /\ probe.x.err = "ConnectError"

\* the reason run_execution saves for what a stage gave: the state's own
\* when the stage returned, the text of the error when it raised
ReasonSaved(res) ==
    IF res.kind = "raise" THEN ReasonOfException(res.exc) ELSE res.st.terminate_reason

\* C28: a scrape that meets a transient network error is attempted at most 3
\* times in all; when every attempt has failed the run ends terminated and
\* its terminate_reason carries the message of the error of the failed call
C28_ScrapeRetriesAreBounded ==
    TransientScrape =>
       /\ probe.res.ev.scrape <= ScrapeAttempts
       /\ probe.x.fails >= ScrapeAttempts =>
             /\ probe.res.kind = "raise" \/ probe.res.st.terminated
             /\ ReasonSaved(probe.res) = MessageOf(probe.x.err)

----------------------------------------------------------------------------
(* The generation collaborator is out of quota *)

\* the step is a generation stage of e, the first one in the detached run or
\* a regeneration in a resume, whose call of the collaborator failed: the
\* driver ends there, which a generation stage that returns never does
GenerationFailed(e) ==
    /\ last' # last
    /\ last'.execution_id = e
    /\ last'.ev.generate = 1
    /\ \/ bg[e].on /\ ~bg'[e].on /\ last'.node = "generate_posts"
       \/ rs[e].on /\ ~rs'[e].on /\ last'.node \in RegenNodes

\* C29: a quota or rate-limit error of the generation collaborator, in the
\* first generation or in a regeneration during a resume, ends the run
\* terminated with the quota reason, which is not the reason a generic
\* failure gives (the raw text of the error)
C29_QuotaErrorTerminates ==
    [][ \A e \in ExecIds :
          GenerationFailed(e) =>
             /\ store'[e].status = "terminated"
             /\ store'[e].state.terminated
             /\ store'[e].state.terminate_reason = R_QUOTA
             /\ ReasonOfException(GenericError) = GenericError
             /\ ReasonOfException(GenericError) # R_QUOTA ]_vars

----------------------------------------------------------------------------
(* The analysis reports a low relevance *)

\* an analyze stage on the bench, run on a state that is not terminated,
\* whose collaborator has answered with a relevance_score under the threshold
ReportsLowRelevance ==
    /\ probe.kind = "stage" /\ probe.done
    /\ probe.node = "analyze_content"
    /\ ~probe.st.terminated
    /\ probe.x.llm /\ probe.x.parsed /\ probe.x.raises = ""
    /\ probe.x.score >= 0 /\ probe.x.score < RelevanceMin

\* C30: whenever the analyze collaborator reports a relevance_score r with
\* 0 <= r < 0.35, r = 0 included, the run terminates with the low-relevance
\* reason and no draft is generated
C30_LowScoreTerminates ==
    ReportsLowRelevance =>
       /\ probe.res.kind = "ok"
       /\ probe.res.st.terminated
       /\ probe.res.st.terminate_reason = R_RELEVANCE
       /\ \A g \in GenerateInputs("wide") :
             generate_posts(probe.res.st, "both", g).ev.generate = 0

----------------------------------------------------------------------------
(* The accounts the human selects *)

\* a merge on the bench of an approving request that carries selectors
SelectorsSubmitted ==
    /\ probe.kind = "merge" /\ probe.done
    /\ "twitter_connection_id" \in DOMAIN probe.request
    /\ probe.res.st.hitl_actions.approve_content
    /\ ~probe.res.st.terminated

\* C31: the account selector of a platform submitted with the approving
\* request is merged into the state and is the connection handed to the
\* upload and publish collaborators of that platform; the default connection
\* (none named) is used only when no selector was submitted
C31_SelectorReachesPublish ==
    SelectorsSubmitted =>
       \A p \in {"twitter", "linkedin"} :
          PassedConnection(probe.res.st, p) = probe.request[p \o "_connection_id"]

----------------------------------------------------------------------------
(* Image failures *)

\* an image stage on the bench, run on a state that is not terminated
ImageStage ==
    /\ probe.kind = "stage" /\ probe.done
    /\ probe.node \in {"select_image", "upload_image"}
    /\ ~probe.st.terminated

\* the publish stage of a platform has a text to publish in st
HasText(st, text) == Strip(GetOr(text)) # "" /\ st.user_id # ""

\* C32: an image failure never terminates a run: when the bytes cannot be
\* fetched in select_image or upload_image, or a platform's media upload
\* fails or raises, terminated stays false, the other platform's upload is
\* still attempted, and both publish stages run, text-only for a platform
\* without a media id
C32_ImageFailureDegrades ==
    ImageStage =>
       /\ probe.res.kind = "ok"
       /\ ~probe.res.st.terminated
       /\ probe.res.ev.upload_twitter = probe.res.ev.upload_linkedin
       /\ probe.node = "select_image" => probe.next = "await_human_actions"
       /\ probe.node = "upload_image" =>
             LET st == probe.res.st
             IN  /\ probe.next = "publish_twitter"
                 /\ st.twitter_media_id =>
                       probe.st.twitter_media_id \/ probe.x.twitter = "media"
                 /\ st.linkedin_asset_urn =>
                       probe.st.linkedin_asset_urn \/ probe.x.linkedin = "media"
                 /\ \A p \in PublishInputs("wide") :
                       LET tw == publish_twitter(st, p)
                           li == publish_linkedin(tw.st, p)
                       IN  /\ tw.kind = "ok" /\ li.kind = "ok"
                           /\ NextNode("publish_twitter", tw.st) = "publish_linkedin"
                           /\ HasText(st, st.approved_twitter_post) =>
                                 tw.ev.publish_twitter = 1
                           /\ HasText(st, st.approved_linkedin_post) =>
                                 li.ev.publish_linkedin = 1

\* the Twitter upload raised; LinkedIn's was made all the same and the state
\* goes on to publish without a Twitter media id
WitnessC32 ==
    /\ ImageStage /\ probe.node = "upload_image"
    /\ probe.x.twitter = "raise"
    /\ probe.res.ev.upload_linkedin = 1
    /\ ~probe.res.st.twitter_media_id
    /\ HasText(probe.res.st, probe.res.st.approved_twitter_post)

\* the late download of the bytes failed: no upload, and the run goes on
WitnessC32_download ==
    /\ ImageStage /\ probe.node = "upload_image"
    /\ probe.st.image_url # "" /\ ~probe.st.image_base64 /\ ~probe.x.download
    /\ probe.res.ev.upload_twitter = 0
    /\ ~probe.res.st.terminated

----------------------------------------------------------------------------
(* The two routing functions and the image *)

\* check_authentication on the bench has returned, from a state that the
\* routing after await_human_actions sent on
AfterAuth ==
    /\ probe.kind = "stage" /\ probe.done
    /\ probe.node = "check_authentication"
    /\ ~probe.st.terminated
    /\ route_after_hitl(probe.st) \in {"continue_no_image", "continue_with_image"}
    /\ probe.res.kind = "ok"

\* the human approved the image, did not reject it, and there is one
ImageGoesAhead(st) ==
    /\ st.hitl_actions.approve_image
    /\ ~st.hitl_actions.reject_image
    /\ st.image_url # ""

\* C33: after check_auth on a run that is not terminated, upload_image runs
\* exactly when the routing after await_human chose to proceed with the image
\* (image approved, not rejected, and an image URL present), and otherwise
\* publish_twitter runs directly; the two routing functions agree on the
\* image, and a state terminated by check_auth ends the run, nothing published
C33_RoutesAgreeOnImage ==
    AfterAuth =>
       IF probe.res.st.terminated
       THEN probe.next = END
       ELSE /\ probe.next \in {"upload_image", "publish_twitter"}
            /\ (probe.next = "upload_image") <=>
                  (route_after_hitl(probe.st) = "continue_with_image")
            /\ (_route_after_auth(probe.res.st) = "upload") <=>
                  (route_after_hitl(probe.res.st) = "continue_with_image")
            /\ (probe.next = "upload_image") <=> ImageGoesAhead(probe.st)

\* the image was approved and rejected at once: both functions leave it out
WitnessC33 ==
    /\ AfterAuth /\ ~probe.res.st.terminated
    /\ probe.st.hitl_actions.approve_image /\ probe.st.hitl_actions.reject_image
    /\ probe.st.image_url # ""
    /\ probe.next = "publish_twitter"

----------------------------------------------------------------------------
(* What a regeneration leaves alone *)

\* the step is regeneration stage n of a resume of e, and the stage returned
RegenReturned(e, n) ==
    /\ ResumeStep(e)
    /\ rs[e].node = n
    /\ ~rs[e].st.terminated
    /\ rs'[e].on

\* the request asks for both regenerations and rejects nothing
AsksBoth(request) ==
    /\ request.regenerate_twitter /\ request.regenerate_linkedin
    /\ ~request.reject_content

\* C34: a Twitter-only regeneration changes twitter_draft and leaves
\* linkedin_draft, both approved texts, the image and the publish statuses
\* as they were, and likewise for a LinkedIn-only regeneration; a request
\* that sets regenerate_twitter and regenerate_linkedin together has only the
\* Twitter draft regenerated in its resume, which then suspends again
C34_RegenerationFrame ==
    [][ \A e \in ExecIds :
          /\ RegenReturned(e, "generate_twitter_only") =>
                /\ last'.ev.generate = 1
                /\ rs'[e].st = [rs[e].st EXCEPT !.twitter_draft = rs'[e].st.twitter_draft]
                /\ rs'[e].node = "await_human_actions" /\ ~rs'[e].has_resume
          /\ RegenReturned(e, "generate_linkedin_only") =>
                /\ last'.ev.generate = 1
                /\ rs'[e].st = [rs[e].st EXCEPT !.linkedin_draft = rs'[e].st.linkedin_draft]
                /\ rs'[e].node = "await_human_actions" /\ ~rs'[e].has_resume
          /\ (/\ ResumeStep(e)
              /\ rs[e].node = "await_human_actions" /\ rs[e].has_resume
              /\ ~rs[e].st.terminated
              /\ AsksBoth(rs[e].resume)) =>
                /\ rs'[e].on /\ rs'[e].node = "generate_twitter_only"
          /\ (/\ ResumeStep(e)
              /\ rs[e].node = "await_human_actions" /\ ~rs[e].has_resume
              /\ ~rs[e].st.terminated) =>
                /\ ~rs'[e].on
                /\ last'.ev.generate = 0
                /\ store'[e].status = "awaiting_human" ]_vars

\* a resume that asked for both regenerations has replaced the Twitter draft
\* and kept LinkedIn's, and is on its way back to await_human
WitnessC34 ==
    \E e \in ExecIds :
       /\ rs[e].on /\ rs[e].node = "await_human_actions" /\ ~rs[e].has_resume
       /\ last.op = "resuming" /\ last.node = "generate_twitter_only"
       /\ AsksBoth(rs[e].st.hitl_actions)
       /\ rs[e].st.twitter_draft = "d2" /\ rs[e].st.linkedin_draft = "d1"

----------------------------------------------------------------------------
(* When an image is uploaded *)

\* the state the stage of the step was run on
StepState(e) == IF last'.op = "stage" THEN bg[e].st ELSE rs[e].st

\* the step is a stage of e, in the detached run or in a resume
StageStep(e) ==
    /\ last' # last
    /\ last'.execution_id = e
    /\ last'.op \in {"stage", "resuming", "resume"}
    /\ last'.node \in Nodes

\* the step made an upload call for e
UploadMade(e) ==
    /\ StageStep(e)
    /\ last'.ev.upload_twitter + last'.ev.upload_linkedin > 0

\* the state after the stage of the step, where the driver goes on
StateLeft(e) ==
    IF last'.op = "stage"
    THEN (IF bg'[e].on THEN bg'[e].st ELSE store'[e].state)
    ELSE (IF rs'[e].on THEN rs'[e].st ELSE store'[e].state)

\* C35: an image is uploaded only when the human approved the image, did not
\* reject it, and the image URL is one of the images the scrape of the same
\* article extracted; in every other case upload_image makes no upload call
\* and leaves the media ids empty
C35_UploadOnlyApprovedScrapedImage ==
    [][ \A e \in ExecIds :
          /\ UploadMade(e) =>
                /\ last'.node = "upload_image"
                /\ ImageGoesAhead(StepState(e))
                /\ _image_is_from_scrape(StepState(e), StepState(e).image_url)
          /\ (/\ StageStep(e) /\ last'.node = "upload_image"
              /\ ~(/\ ImageGoesAhead(StepState(e))
                   /\ _image_is_from_scrape(StepState(e), StepState(e).image_url))) =>
                /\ ~UploadMade(e)
                /\ ~StateLeft(e).twitter_media_id
                /\ ~StateLeft(e).linkedin_asset_urn ]_vars

\* an upload has just been made for an image the human approved
WitnessC35 ==
    /\ last.node = "upload_image"
    /\ last.ev.upload_twitter = 1 /\ last.ev.upload_linkedin = 1
    /\ last.execution_id \in ExecIds
    /\ rs[last.execution_id].on
    /\ rs[last.execution_id].st.hitl_actions.approve_image
    /\ rs[last.execution_id].st.twitter_media_id

----------------------------------------------------------------------------
(* The status of a row and its snapshot *)

\* C36: in every row of the table the status agrees with the snapshot: it is
\* terminated exactly when the snapshot has terminated set; it is
\* awaiting_human or awaiting_auth exactly when the snapshot carries an
\* interrupt payload, awaiting_auth exactly for a payload of type
\* reauth_required; a completed row has neither.  This holds after create, a
\* save, a timeout, a failure and the recovery at startup.
C36_StatusAgreesWithSnapshot ==
    \A e \in ExecIds :
       store[e].has =>
          /\ store[e].status \in Statuses
          /\ (store[e].status = "terminated") <=> store[e].state.terminated
          /\ (store[e].status \in {"awaiting_human", "awaiting_auth"})
                <=> store[e].interrupt.present
          /\ (store[e].status = "awaiting_auth")
                <=> (store[e].interrupt.present
                       /\ store[e].interrupt.type = "reauth_required")
          /\ (store[e].status = "completed")
                => (~store[e].state.terminated /\ ~store[e].interrupt.present)

\* the recovery at startup has terminated a row that was running
WitnessC36 ==
    /\ last.op = "restart"
    /\ \E e \in ExecIds :
          /\ store[e].status = "terminated"
          /\ store[e].state.terminate_reason = R_RESTART
          /\ ~store[e].interrupt.present

----------------------------------------------------------------------------
(* Publishing once *)

\* C37: within one execution a platform that has been published to is never
\* published to again: over any sequence of resumes, restarts and
\* rehydrations the publish collaborator returns success at most once for
\* each platform
C37_PublishedAtMostOnce ==
    \A e \in ExecIds : calls[e].twitter <= 1 /\ calls[e].linkedin <= 1

----------------------------------------------------------------------------
(* Status running *)

\* the detached run of e comes to its end in the step (run_execution saves
\* the row); a restart that kills the run is not an end of it
RunEnds(e) == bg[e].on /\ ~bg'[e].on /\ last'.op # "restart"

\* C38: status running is assigned by create alone: a row that has left
\* running never shows it again; and the detached run that create launched
\* ends with awaiting_human or terminated, never with completed or
\* awaiting_auth, since await_human comes before check_auth and suspends
C38_RunningOnlyFromCreate ==
    [][ \A e \in ExecIds :
          /\ (store[e].has /\ store[e].status # "running") => store'[e].status # "running"
          /\ (store'[e].status = "running" /\ store[e].status # "running") => Creates(e)
          /\ RunEnds(e) => store'[e].status \in {"awaiting_human", "terminated"} ]_vars

\* a resume has come back with a status for a row that is running no more
WitnessC38 ==
    /\ last.op = "resume" /\ last.code = 200
    /\ last.execution_id \in ExecIds
    /\ store[last.execution_id].status = "completed"
    /\ ~bg[last.execution_id].on

----------------------------------------------------------------------------
(* Startup recovery *)

\* a resume sent by the owner of e now would be handed to the graph with a
\* stage to run: no driver of e is under way, and the thread, loaded from the
\* stored snapshot when its checkpoint is missing, has a next stage
Resumable(e) ==
    /\ store[e].has
    /\ ~rs[e].on /\ ~bg[e].on
    /\ LET ck == Rehydrate(e) IN ck.has /\ ck.next # END

\* C39: startup recovery changes only the rows whose status is running: a row
\* in awaiting_human, awaiting_auth, completed or terminated keeps its status
\* and its snapshot over a restart, and a suspended execution can be resumed
\* after it
C39_RecoveryTouchesRunningOnly ==
    [][ last'.op = "restart" =>
          \A e \in ExecIds :
            /\ (store[e].has /\ store[e].status # "running") => store'[e] = store[e]
            /\ (store'[e].has /\ store'[e].status \in {"awaiting_human", "awaiting_auth"})
                 => Resumable(e)' ]_vars

\* the process has restarted without its checkpoints and a suspended
\* execution is still suspended and can be loaded from its snapshot
WitnessC39 ==
    /\ last.op = "restart"
    /\ \E e \in ExecIds :
         /\ store[e].has /\ store[e].status = "awaiting_human"
         /\ CheckpointMissing(e)
         /\ Resumable(e)

----------------------------------------------------------------------------
(* Access *)

\* the step changes no row, no thread, no driver and no call counter
NothingDone == UNCHANGED <<store, nextId, ckpt, bg, rs, calls, hist>>

\* the user asks for an execution of somebody else
NotOwner(e, u) == store[e].has /\ store[e].user_id # u

\* C40: a get-state or a resume request of a user who does not own the
\* execution is answered with not found, runs no stage and leaves the
\* execution as it was; the inbox of a user lists exactly the executions of
\* that user whose status is awaiting_human or awaiting_auth
C40_OnlyTheOwner ==
    [][ /\ \A e \in ExecIds, u \in Users :
             /\ (GetExecutionState(e, u) /\ NotOwner(e, u))
                  => /\ last'.code = 404
                     /\ last'.status = "" /\ last'.state = NoState
                     /\ NothingDone
             /\ \A request \in Requests("store") :
                  (SubmitActionsWhole(e, u, request, SuccessPlan) /\ NotOwner(e, u))
                    => /\ last'.op = "resume" /\ last'.code = 404
                       /\ last'.ev = NoCalls
                       /\ NothingDone
        /\ last'.op = "inbox" =>
             last'.rows = {e \in ExecIds :
                             /\ store[e].has
                             /\ store[e].user_id = last'.user
                             /\ store[e].status \in {"awaiting_human", "awaiting_auth"}} ]_vars

\* a resume of a suspended execution has been refused to a user who does not
\* own it, while that user has a suspended execution of their own
WitnessC40 ==
    /\ last.op = "resume" /\ last.code = 404
    /\ last.execution_id \in ExecIds
    /\ store[last.execution_id].has
    /\ store[last.execution_id].status = "awaiting_human"
    /\ \E e \in ExecIds :
         /\ store[e].has
         /\ store[e].user_id # store[last.execution_id].user_id
         /\ store[e].status = "awaiting_human"

\* the inbox of a user has been read while another user has a suspended
\* execution, and it lists one
WitnessC40_inbox ==
    /\ last.op = "inbox"
    /\ last.rows # {}
    /\ \E e \in ExecIds :
         /\ store[e].has /\ store[e].user_id # last.user
         /\ store[e].status \in {"awaiting_human", "awaiting_auth"}

====
